---------------------------- MODULE Spec2Model ----------------------------
(***************************************************************************)
(* Model of the TransLT translation relay (Oukaro/TransLT).                *)
(*                                                                         *)
(* Text is a sequence of Unicode scalar values (integers), so that         *)
(* character classes, trimming, slicing and truncation are computed the    *)
(* way the Rust code computes them on `str` / `chars()`.                   *)
(*                                                                         *)
(* Pure functions of the code are operators.  Each one is exercised by a   *)
(* small call/return specification (SpecParse, SpecNormalize, ...): Init   *)
(* draws the arguments, one action applies the function.                   *)
(***************************************************************************)
EXTENDS Integers, Sequences, FiniteSets, TLC

VARIABLES
    op,       \* name of the function under call in the call/return specifications
    arg,      \* its arguments (a record)
    pc,       \* "call" before the function has run, "return" after
    ret,      \* its result (a record with a `kind` field)
    config,   \* the Config read at startup (the two default languages)
    handlers  \* per inbound inline query: the state of its handle_inline_query task

call_vars == << op, arg, pc, ret >>

handler_vars == << config, handlers >>

vars == << op, arg, pc, ret, config, handlers >>

---------------------------------------------------------------------------
(* Characters and character classes                                        *)

\* const SEGMENT_DELIMITER: &str = "|";
SEGMENT_DELIMITER == 124

\* const MAX_TEXT_LENGTH: usize = 2048;
MAX_TEXT_LENGTH == 2048

\* Unicode White_Space: what str::trim, char::is_whitespace and the regex
\* class \s test.
IsWhitespace(c) ==
    \/ c \in 9..13
    \/ c \in {32, 133, 160, 5760}
    \/ c \in 8192..8202
    \/ c \in {8232, 8233, 8239, 8287, 12288}

\* [U+3000-U+303F, U+3040-U+30FF, U+3400-U+4DBF, U+4E00-U+9FFF, U+F900-U+FAFF]
IsCJK(c) ==
    \/ c \in 12288..12351
    \/ c \in 12352..12543
    \/ c \in 13312..19903
    \/ c \in 19968..40959
    \/ c \in 63744..64255

\* [a-zA-Z]
IsLatin(c) == c \in 65..90 \/ c \in 97..122

\* ASCII lower-casing: all the (?i) pattern and to_lowercase need for the
\* letters e, n, z, h (none of them has a non-ASCII case variant).
ToLower(c) == IF c \in 65..90 THEN c + 32 ELSE c

---------------------------------------------------------------------------
(* Text helpers                                                            *)

Min2(a, b) == IF a <= b THEN a ELSE b

\* s[from..] (1-based, from may be Len(s)+1)
Suffix(s, from) == SubSeq(s, from, Len(s))

\* .chars().take(n).collect::<String>()
take_off_by_one(s, n) == SubSeq(s, 1, Min2(n + 1, Len(s)))

take(s, n) == SubSeq(s, 1, Min2(n, Len(s)))

\* Index of the first character at or after `from` that is not whitespace;
\* Len(s)+1 when there is none.
SkipWhitespace(s, from) ==
    CHOOSE j \in from..(Len(s) + 1) :
        /\ (j = Len(s) + 1 \/ ~IsWhitespace(s[j]))
        /\ \A k \in from..(j - 1) : IsWhitespace(s[k])

\* Index of the last character that is not whitespace; 0 when there is none.
LastNonWhitespace(s) ==
    LET n == Len(s)
        back == CHOOSE k \in 0..n :
                    /\ (k = n \/ ~IsWhitespace(s[n - k]))
                    /\ \A m \in 0..(k - 1) : IsWhitespace(s[n - m])
    IN  n - back

\* A trim that strips at most one whitespace character from each end.
trim_one_each_end(s) ==
    LET a == IF Len(s) > 0 /\ IsWhitespace(s[1]) THEN 2 ELSE 1
        b == IF Len(s) > 0 /\ IsWhitespace(s[Len(s)]) THEN Len(s) - 1 ELSE Len(s)
    IN  SubSeq(s, a, b)

\* str::trim
trim(s) ==
    LET a == SkipWhitespace(s, 1)
        b == LastNonWhitespace(s)
    IN  IF a > b THEN << >> ELSE SubSeq(s, a, b)

\* str::split on a one-character delimiter: always at least one piece.
RECURSIVE split(_, _)
split(s, d) ==
    IF \A i \in 1..Len(s) : s[i] # d
    THEN << s >>
    ELSE LET i == CHOOSE i \in 1..Len(s) :
                      s[i] = d /\ \A k \in 1..(i - 1) : s[k] # d
         IN  << SubSeq(s, 1, i - 1) >> \o split(Suffix(s, i + 1), d)

\* [T].join(sep)
RECURSIVE join(_, _)
join(parts, sep) ==
    IF Len(parts) = 0 THEN << >>
    ELSE IF Len(parts) = 1 THEN parts[1]
    ELSE LET half == Len(parts) \div 2
         IN  join(SubSeq(parts, 1, half), sep) \o sep
             \o join(SubSeq(parts, half + 1, Len(parts)), sep)

\* The segments trimmed, the empty ones kept.
trimmed_keep_empty(parts) == [i \in 1..Len(parts) |-> trim(parts[i])]

\* .map(|s| s.trim()).filter(|s| !s.is_empty())
TrimmedNonEmpty(parts) ==
    LET trimmed == [i \in 1..Len(parts) |-> trim(parts[i])]
    IN  SelectSeq(trimmed, LAMBDA p : Len(p) > 0)

\* fn normalize_segments(raw: &str) -> String
normalize_segments(s) ==
    join(TrimmedNonEmpty(split(s, SEGMENT_DELIMITER)), << SEGMENT_DELIMITER >>)

\* fn format_segments_for_display(value: &str) -> String   (joined by "\n")
format_segments_for_display(s) ==
    join(TrimmedNonEmpty(split(s, SEGMENT_DELIMITER)), << 10 >>)

---------------------------------------------------------------------------
(* Query interpreter: inline.rs                                            *)

LanguageCodes == {"En", "Zh"}

\* impl FromStr for LanguageCode, applied to the two characters at s[i], s[i+1]
\* under the pattern's (?i)(en|zh); "none" when neither alternative matches.
LangAt(s, i) ==
    IF i + 1 > Len(s) THEN "none"
    ELSE IF ToLower(s[i]) = 101 /\ ToLower(s[i + 1]) = 110 THEN "En"
    ELSE IF ToLower(s[i]) = 122 /\ ToLower(s[i + 1]) = 104 THEN "Zh"
    ELSE "none"

\* (?:>|->) at s[i]: the index after it, 0 when it does not match.
ArrowEnd(s, i) ==
    IF i <= Len(s) /\ s[i] = 62 THEN i + 1
    ELSE IF i + 1 <= Len(s) /\ s[i] = 45 /\ s[i + 1] = 62 THEN i + 2
    ELSE 0

\* Regex ^(?i)(en|zh)\s*(?:>|->)\s*(en|zh)\s*:? on s: whether it matches, the
\* two captures, and `rest`, the index of the first character after the match.
direction_pattern(s) ==
    LET src == LangAt(s, 1)
        a   == SkipWhitespace(s, 3)
        b   == ArrowEnd(s, a)
        c   == SkipWhitespace(s, b)
        tgt == LangAt(s, c)
        d   == SkipWhitespace(s, c + 2)
        e   == IF d <= Len(s) /\ s[d] = 58 THEN d + 1 ELSE d
    IN  IF src = "none" THEN [matched |-> FALSE]
        ELSE IF b = 0 THEN [matched |-> FALSE]
        ELSE IF tgt = "none" THEN [matched |-> FALSE]
        ELSE [matched |-> TRUE, src |-> src, tgt |-> tgt, rest |-> e]

\* whatlang::detect is a library outside the repository: its answer for the
\* text is an input of the model.
DetectorAnswers == {"None", "Eng", "Cmn", "Other"}

\* cjk_regex.is_match(text)
cjk_is_match(s) == \E i \in 1..Len(s) : IsCJK(s[i])

\* latin_regex.is_match(text)
latin_is_match(s) == \E i \in 1..Len(s) : IsLatin(s[i])

\* The detector consulted before the script test.
auto_detect_detector_first(text, default_source, default_target, detected) ==
    IF detected = "Eng" THEN << "En", "Zh" >>
    ELSE IF detected = "Cmn" THEN << "Zh", "En" >>
    ELSE IF cjk_is_match(text) THEN << "Zh", "En" >>
    ELSE IF latin_is_match(text) THEN << "En", "Zh" >>
    ELSE << default_source, default_target >>

\* fn auto_detect_direction(text, default_source, default_target)
auto_detect_direction(text, default_source, default_target, detected) ==
    IF cjk_is_match(text) THEN << "Zh", "En" >>
    ELSE IF detected = "Eng" THEN << "En", "Zh" >>
    ELSE IF detected = "Cmn" THEN << "Zh", "En" >>
    ELSE IF latin_is_match(text) THEN << "En", "Zh" >>
    ELSE << default_source, default_target >>

NoQuery == [kind |-> "None"]

SomeQuery(text, src, tgt) ==
    [kind |-> "Some", text |-> text, source_lang |-> src, target_lang |-> tgt]

\* parse_inline_query with the remainder after the prefix left untrimmed and
\* the prefix kept in the text.
parse_inline_query_keeps_prefix(raw_query, default_source, default_target, detected) ==
    LET trimmed == trim(raw_query)
        m == direction_pattern(trimmed)
        normalized_text == normalize_segments(take(trimmed, MAX_TEXT_LENGTH))
    IN  IF Len(trimmed) = 0 \/ Len(normalized_text) = 0 THEN NoQuery
        ELSE IF m.matched THEN SomeQuery(normalized_text, m.src, m.tgt)
        ELSE LET dir == auto_detect_direction(trimmed, default_source,
                                              default_target, detected)
             IN  SomeQuery(normalized_text, dir[1], dir[2])

\* pub fn parse_inline_query(raw_query, default_source, default_target)
parse_inline_query(raw_query, default_source, default_target, detected) ==
    LET trimmed == trim(raw_query)
        m == direction_pattern(trimmed)
        dir == IF m.matched THEN << m.src, m.tgt >>
               ELSE auto_detect_direction(trimmed, default_source,
                                          default_target, detected)
        text_portion == IF m.matched THEN trim(Suffix(trimmed, m.rest))
                        ELSE trimmed
        normalized_text == normalize_segments(take(text_portion, MAX_TEXT_LENGTH))
    IN  IF Len(trimmed) = 0 THEN NoQuery
        ELSE IF Len(normalized_text) = 0 THEN NoQuery
        ELSE SomeQuery(normalized_text, dir[1], dir[2])

---------------------------------------------------------------------------
(* JSON text: what serde_json accepts                                      *)
(*                                                                         *)
(* A parsed value is [t |-> tag, v |-> content] with tag "null", "bool",   *)
(* "num", "str" (v: the unescaped text), "arr" (v: the values) or "obj"    *)
(* (v: the << key, value >> members in order).  A parse step returns       *)
(* [ok |-> FALSE] or [ok |-> TRUE, val |-> value, next |-> index after it].*)
(*                                                                         *)
(* A text is read in one of three modes:                                   *)
(*   "value"    into a serde_json::Value: strings are decoded, a number    *)
(*              must be in the range of f64, nesting is limited;           *)
(*   "payload"  into ProviderTranslationPayload: as "value", but the value *)
(*              of a key that names no field is read in mode "ignored";    *)
(*   "ignored"  into serde::de::IgnoredAny: the syntax only (string        *)
(*              escapes are not decoded, numbers not converted, nesting    *)
(*              not limited); nothing reads the value built.               *)

JsonFail == [ok |-> FALSE]

JsonOk(val, next) == [ok |-> TRUE, val |-> val, next |-> next]

\* JSON whitespace: space, \t, \n, \r
IsJsonWhitespace(c) == c \in {32, 9, 10, 13}

SkipJsonWhitespace(s, from) ==
    CHOOSE j \in from..(Len(s) + 1) :
        /\ (j = Len(s) + 1 \/ ~IsJsonWhitespace(s[j]))
        /\ \A k \in from..(j - 1) : IsJsonWhitespace(s[k])

IsDigit(c) == c \in 48..57

\* Value of a hexadecimal digit, -1 for any other character.
HexValue(c) ==
    IF c \in 48..57 THEN c - 48
    ELSE IF c \in 65..70 THEN c - 55
    ELSE IF c \in 97..102 THEN c - 87
    ELSE -1

\* The four hex digits at s[i..i+3] as a number, -1 when they are not there.
Hex4(s, i) ==
    IF i + 3 > Len(s) THEN -1
    ELSE IF \E k \in 0..3 : HexValue(s[i + k]) = -1 THEN -1
    ELSE HexValue(s[i]) * 4096 + HexValue(s[i + 1]) * 256
         + HexValue(s[i + 2]) * 16 + HexValue(s[i + 3])

\* The character an escape letter stands for, -1 for an invalid escape.
SimpleEscape(c) ==
    CASE c = 34  -> 34
      [] c = 92  -> 92
      [] c = 47  -> 47
      [] c = 98  -> 8
      [] c = 102 -> 12
      [] c = 110 -> 10
      [] c = 114 -> 13
      [] c = 116 -> 9
      [] OTHER   -> -1

\* Whether s[k] is taken by a backslash before it: the backslashes that
\* stand directly before s[k], counted back to s[i], are odd in number.
IsEscaped(s, i, k) ==
    LET m == CHOOSE m \in i..k :
                 /\ \A t \in m..(k - 1) : s[t] = 92
                 /\ (m = i \/ s[m - 1] # 92)
    IN  (k - m) % 2 = 1

\* Index of the quote that closes the string whose body starts at s[i]: the
\* first quote that is not escaped; Len(s)+1 when there is none.
ClosingQuote(s, i) ==
    LET quotes == { k \in i..Len(s) : s[k] = 34 /\ ~IsEscaped(s, i, k) }
    IN  IF quotes = {} THEN Len(s) + 1
        ELSE CHOOSE k \in quotes : \A l \in quotes : k <= l

\* The code unit of the \uXXXX escape at s[k], -1 when s[k..] is no such
\* escape.
UnicodeEscape(s, k) ==
    IF k + 1 <= Len(s) /\ s[k] = 92 /\ s[k + 1] = 117 THEN Hex4(s, k + 2) ELSE -1

IsHighSurrogate(u) == u \in 55296..56319

IsLowSurrogate(u) == u \in 56320..57343

\* Whether the escape at s[k] is the second half of a surrogate pair.
IsPairedLow(s, i, k) ==
    /\ IsLowSurrogate(UnicodeEscape(s, k))
    /\ k - 6 >= i
    /\ ~IsEscaped(s, i, k - 6)
    /\ IsHighSurrogate(UnicodeEscape(s, k - 6))

\* Whether the escape that starts at s[k] is one of \" \\ \/ \b \f \n \r \t
\* or \uXXXX; where the string is decoded (`strict`), a surrogate must be
\* half of a pair.
IsValidEscape(s, i, k, strict) ==
    IF s[k + 1] # 117 THEN SimpleEscape(s[k + 1]) # -1
    ELSE /\ UnicodeEscape(s, k) # -1
         /\ strict /\ IsHighSurrogate(UnicodeEscape(s, k))
                => IsLowSurrogate(UnicodeEscape(s, k + 6))
         /\ strict /\ IsLowSurrogate(UnicodeEscape(s, k))
                => IsPairedLow(s, i, k)

\* The character the escape at s[k] stands for.
EscapedChar(s, k) ==
    CASE s[k + 1] # 117 -> SimpleEscape(s[k + 1])
      [] IsHighSurrogate(UnicodeEscape(s, k)) ->
             65536 + (UnicodeEscape(s, k) - 55296) * 1024
                   + (UnicodeEscape(s, k + 6) - 56320)
      [] OTHER -> UnicodeEscape(s, k)

\* The number of characters the escape at s[k] takes.
EscapeWidth(s, k) ==
    CASE s[k + 1] # 117 -> 2
      [] IsHighSurrogate(UnicodeEscape(s, k)) -> 12
      [] OTHER -> 6

\* The elements of a set of numbers in increasing order.
Sorted(S) ==
    [m \in 1..Cardinality(S) |->
        CHOOSE k \in S : Cardinality({ l \in S : l < k }) = m - 1]

\* The text of the string body s[i..close-1], its escapes at the indices
\* `escapes` (in increasing order) decoded.
Unescaped(s, i, close, escapes) ==
    LET n == Len(escapes)
        piece(m) ==
            << EscapedChar(s, escapes[m]) >>
            \o SubSeq(s, escapes[m] + EscapeWidth(s, escapes[m]),
                      (IF m < n THEN escapes[m + 1] ELSE close) - 1)
    IN  IF n = 0 THEN SubSeq(s, i, close - 1)
        ELSE SubSeq(s, i, escapes[1] - 1) \o join([m \in 1..n |-> piece(m)], << >>)

\* The rest of a string literal from s[i] (after the opening quote): plain
\* characters up to the closing quote, with the escapes \" \\ \/ \b \f \n
\* \r \t and \uXXXX (a surrogate pair for a character beyond U+FFFF)
\* decoded; a control character, an unknown escape or a lone surrogate is
\* an error.  A string that is not decoded (ignore_str) keeps no text and
\* takes any \uXXXX.
ParseStringBody(s, i, strict) ==
    LET close == ClosingQuote(s, i)
        starts == { k \in i..(close - 1) : s[k] = 92 /\ ~IsEscaped(s, i, k) }
    IN  CASE close > Len(s) -> JsonFail
          [] \E k \in i..(close - 1) : s[k] < 32 -> JsonFail
          [] \E k \in starts : ~IsValidEscape(s, i, k, strict) -> JsonFail
          [] ~strict -> JsonOk(<< >>, close + 1)
          [] OTHER ->
                 JsonOk(Unescaped(s, i, close,
                            Sorted({ k \in starts : ~IsPairedLow(s, i, k) })),
                        close + 1)

\* First index at or after `from` that is not a digit.
SkipDigits(s, from) ==
    CHOOSE j \in from..(Len(s) + 1) :
        /\ (j = Len(s) + 1 \/ ~IsDigit(s[j]))
        /\ \A k \in from..(j - 1) : IsDigit(s[k])

\* Index after the integer part at s[a], 0 when there is none: 0|[1-9][0-9]*
\* (a digit after a leading 0 is an error).
IntegerEnd(s, a) ==
    CASE a > Len(s) -> 0
      [] ~IsDigit(s[a]) -> 0
      [] s[a] # 48 -> SkipDigits(s, a)
      [] a + 1 <= Len(s) /\ IsDigit(s[a + 1]) -> 0
      [] OTHER -> a + 1

\* Index after the optional exponent at s[c], 0 when it has no digit:
\* ([eE][+-]?[0-9]+)?
ExponentEnd(s, c) ==
    LET d == IF c + 1 <= Len(s) /\ s[c + 1] \in {43, 45} THEN c + 2 ELSE c + 1
    IN  CASE c > Len(s) -> c
          [] s[c] \notin {69, 101} -> c
          [] SkipDigits(s, d) = d -> 0
          [] OTHER -> SkipDigits(s, d)

\* Index after the optional fraction and exponent at s[b], 0 when the
\* fraction has no digit: (\.[0-9]+)?([eE][+-]?[0-9]+)?
FractionEnd(s, b) ==
    CASE b > Len(s) -> b
      [] s[b] # 46 -> ExponentEnd(s, b)
      [] SkipDigits(s, b + 1) = b + 1 -> 0
      [] OTHER -> ExponentEnd(s, SkipDigits(s, b + 1))

\* Index after the number starting at s[i], 0 when it is not a number:
\* -?(0|[1-9][0-9]*)(\.[0-9]+)?([eE][+-]?[0-9]+)?
NumberEnd(s, i) ==
    LET b == IntegerEnd(s, IF s[i] = 45 THEN i + 1 ELSE i)
    IN  IF b = 0 THEN 0 ELSE FractionEnd(s, b)

\* The digits s[a..b] as numbers 0..9.
Digits(s, a, b) == [k \in 1..(b - a + 1) |-> s[a + k - 1] - 48]

\* A digit sequence without its leading zeros.
StripZeros(d) ==
    LET nz == { k \in 1..Len(d) : d[k] # 0 }
    IN  IF nz = {} THEN << >>
        ELSE SubSeq(d, CHOOSE k \in nz : \A l \in nz : k <= l, Len(d))

\* a <= b for digit sequences without leading zeros.
DigitsLeq(a, b) ==
    \/ Len(a) < Len(b)
    \/ /\ Len(a) = Len(b)
       /\ \/ a = b
          \/ \E k \in 1..Len(a) :
                 a[k] < b[k] /\ \A j \in 1..(k - 1) : a[j] = b[j]

\* u64::MAX
U64Max == << 1, 8, 4, 4, 6, 7, 4, 4, 0, 7, 3, 7, 0, 9, 5, 5, 1, 6, 1, 5 >>

\* How many digits of d the significand takes after those of `taken`: the
\* digits are accumulated in a u64 up to the first that would overflow it.
TakenDigits(taken, d) ==
    CHOOSE n \in 0..Len(d) :
        /\ DigitsLeq(StripZeros(taken \o SubSeq(d, 1, n)), U64Max)
        /\ n < Len(d) =>
               ~DigitsLeq(StripZeros(taken \o SubSeq(d, 1, n + 1)), U64Max)

RECURSIVE DecimalValue(_)
\* The number a digit sequence of at most nine digits writes.
DecimalValue(d) ==
    IF Len(d) = 0 THEN 0
    ELSE DecimalValue(SubSeq(d, 1, Len(d) - 1)) * 10 + d[Len(d)]

\* The exponent written by the digits d, capped at 10^9: an exponent that
\* large ends as one that overflows i32 does.
ExponentValue(d) ==
    IF Len(StripZeros(d)) > 9 THEN 1000000000 ELSE DecimalValue(StripZeros(d))

\* The least significand whose product with 10^e is infinite in f64
\* (f64_from_parts: (significand as f64) * POW10[e]), for the exponents
\* where a u64 can reach it; no significand but 0 is finite beyond 10^308.
InfiniteFrom(e) ==
    CASE e = 289 -> << 1, 7, 9, 7, 6, 9, 3, 1, 3, 4, 8, 6, 2, 3, 1, 5, 6, 2, 2, 5 >>
      [] e = 290 -> << 1, 7, 9, 7, 6, 9, 3, 1, 3, 4, 8, 6, 2, 3, 1, 5, 6, 4, 9 >>
      [] e = 291 -> << 1, 7, 9, 7, 6, 9, 3, 1, 3, 4, 8, 6, 2, 3, 1, 6, 0, 0 >>
      [] e = 292 -> << 1, 7, 9, 7, 6, 9, 3, 1, 3, 4, 8, 6, 2, 3, 1, 5, 8 >>
      [] e = 293 -> << 1, 7, 9, 7, 6, 9, 3, 1, 3, 4, 8, 6, 2, 3, 1, 6 >>
      [] e = 294 -> << 1, 7, 9, 7, 6, 9, 3, 1, 3, 4, 8, 6, 2, 3, 2 >>
      [] e = 295 -> << 1, 7, 9, 7, 6, 9, 3, 1, 3, 4, 8, 6, 2, 4 >>
      [] e = 296 -> << 1, 7, 9, 7, 6, 9, 3, 1, 3, 4, 8, 6, 3 >>
      [] e = 297 -> << 1, 7, 9, 7, 6, 9, 3, 1, 3, 4, 8, 7 >>
      [] e = 298 -> << 1, 7, 9, 7, 6, 9, 3, 1, 3, 4, 9 >>
      [] e = 299 -> << 1, 7, 9, 7, 6, 9, 3, 1, 3, 5 >>
      [] e = 300 -> << 1, 7, 9, 7, 6, 9, 3, 1, 4 >>
      [] e = 301 -> << 1, 7, 9, 7, 6, 9, 3, 2 >>
      [] e = 302 -> << 1, 7, 9, 7, 6, 9, 4 >>
      [] e = 303 -> << 1, 7, 9, 7, 7, 0 >>
      [] e = 304 -> << 1, 7, 9, 7, 7 >>
      [] e = 305 -> << 1, 7, 9, 8 >>
      [] e = 306 -> << 1, 8, 0 >>
      [] e = 307 -> << 1, 8 >>
      [] e = 308 -> << 2 >>
      [] e > 308 -> << 1 >>
      [] OTHER -> << >>

\* Whether the number s[i..e-1] is outside the range of f64
\* (ErrorCode::NumberOutOfRange): parse_integer, parse_long_integer,
\* parse_decimal, parse_exponent and f64_from_parts of serde_json.  The
\* significand is the integer and fraction digits a u64 takes, the
\* exponent counts the integer digits left over, less the fraction digits
\* taken, plus the exponent written.
NumberOutOfRange(s, i, e) ==
    LET a == IF s[i] = 45 THEN i + 1 ELSE i
        b == IntegerEnd(s, a)
        c == IF b < e /\ s[b] = 46 THEN SkipDigits(s, b + 1) ELSE b
        x == IF c < e /\ s[c + 1] \in {43, 45} THEN c + 2 ELSE c + 1
        int == Digits(s, a, b - 1)
        frac == IF c > b THEN Digits(s, b + 1, c - 1) ELSE << >>
        nInt == TakenDigits(<< >>, int)
        nFrac == TakenDigits(SubSeq(int, 1, nInt), frac)
        significand == StripZeros(SubSeq(int, 1, nInt) \o SubSeq(frac, 1, nFrac))
        written == IF c < e THEN ExponentValue(Digits(s, x, e - 1)) ELSE 0
        exponent == (Len(int) - nInt) - nFrac
                    + (IF c < e /\ s[c + 1] = 45 THEN 0 - written ELSE written)
    IN  /\ Len(significand) > 0
        /\ Len(InfiniteFrom(exponent)) > 0
        /\ DigitsLeq(InfiniteFrom(exponent), significand)

\* Whether the characters of `word` stand at s[i..].
LiteralAt(s, i, word) ==
    /\ i + Len(word) - 1 <= Len(s)
    /\ \A k \in 1..Len(word) : s[i + k - 1] = word[k]

\* The field of ProviderTranslationPayload a key names, by name or alias;
\* "ignored" for any other key.
PayloadField(key) ==
    IF key \in { << 116, 114, 97, 110, 115, 108, 97, 116, 105, 111, 110 >>,
                 << 116 >> }
    THEN "translation"
    ELSE IF key \in { << 97, 108, 116, 101, 114, 110, 97, 116, 105, 118, 101, 115 >>,
                      << 97 >> }
    THEN "alternatives"
    ELSE IF key \in { << 114, 111, 109, 97, 110, 105, 122, 101, 100 >>,
                      << 114 >> }
    THEN "romanized"
    ELSE "ignored"

\* The mode in which the value of the member `key` is read.
MemberMode(mode, key) ==
    IF mode = "payload"
    THEN IF PayloadField(key) = "ignored" THEN "ignored" ELSE "value"
    ELSE mode

RECURSIVE ParseValue(_, _, _, _)
RECURSIVE ParseElements(_, _, _, _, _)
RECURSIVE ParseMembers(_, _, _, _, _)

\* What follows the element `el` of an array: ',' and the next elements,
\* or ']'.
AfterElement(s, acc, el, mode, depth) ==
    LET k == SkipJsonWhitespace(s, el.next)
    IN  CASE ~el.ok -> JsonFail
          [] k > Len(s) -> JsonFail
          [] s[k] = 44 -> ParseElements(s, k + 1, Append(acc, el.val), mode, depth)
          [] s[k] = 93 -> JsonOk([t |-> "arr", v |-> Append(acc, el.val)], k + 1)
          [] OTHER -> JsonFail

\* The elements of an array from s[i], after '[' or ','; `acc` holds the
\* elements read so far (a ']' is accepted in place of the first one only).
ParseElements(s, i, acc, mode, depth) ==
    LET j == SkipJsonWhitespace(s, i)
    IN  CASE j > Len(s) -> JsonFail
          [] s[j] = 93 /\ Len(acc) = 0 -> JsonOk([t |-> "arr", v |-> acc], j + 1)
          [] OTHER -> AfterElement(s, acc, ParseValue(s, j, mode, depth),
                                   mode, depth)

\* What follows the value `val` of the member `key` of an object: ',' and
\* the next members, or '}'.
AfterMember(s, acc, key, val, mode, depth) ==
    LET k == SkipJsonWhitespace(s, val.next)
        members == Append(acc, << key.val, val.val >>)
    IN  CASE ~val.ok -> JsonFail
          [] k > Len(s) -> JsonFail
          [] s[k] = 44 -> ParseMembers(s, k + 1, members, mode, depth)
          [] s[k] = 125 -> JsonOk([t |-> "obj", v |-> members], k + 1)
          [] OTHER -> JsonFail

\* What follows the key of a member: ':' and the value.
AfterKey(s, acc, key, mode, depth) ==
    LET c == SkipJsonWhitespace(s, key.next)
    IN  CASE ~key.ok -> JsonFail
          [] c > Len(s) -> JsonFail
          [] s[c] # 58 -> JsonFail
          [] OTHER -> AfterMember(s, acc, key,
                                  ParseValue(s, SkipJsonWhitespace(s, c + 1),
                                             MemberMode(mode, key.val), depth),
                                  mode, depth)

\* The members of an object from s[i], after '{' or ','.
ParseMembers(s, i, acc, mode, depth) ==
    LET j == SkipJsonWhitespace(s, i)
    IN  CASE j > Len(s) -> JsonFail
          [] s[j] = 125 /\ Len(acc) = 0 -> JsonOk([t |-> "obj", v |-> acc], j + 1)
          [] s[j] # 34 -> JsonFail
          [] OTHER -> AfterKey(s, acc,
                               ParseStringBody(s, j + 1, mode # "ignored"),
                               mode, depth)

\* A string value from the string body read.
StringValue(str) ==
    IF str.ok THEN JsonOk([t |-> "str", v |-> str.val], str.next) ELSE JsonFail

\* A number value from the index after the number (0: not a number); a
\* number that is converted must be in the range of f64.
NumberValue(s, i, e, mode) ==
    CASE e = 0 -> JsonFail
      [] mode # "ignored" /\ NumberOutOfRange(s, i, e) -> JsonFail
      [] OTHER -> JsonOk([t |-> "num", v |-> SubSeq(s, i, e - 1)], e)

\* Whether one more array or object may be entered inside `depth` others
\* (check_recursion!: remaining_depth starts at 128 and must stay above 0);
\* an ignored value is read without recursion and has no limit.
MayEnter(mode, depth) == mode = "ignored" \/ depth < 127

\* The value starting at s[i] (i is not at whitespace), `depth` arrays and
\* objects around it.  The elements of the payload's sequence form are
\* fields, read as values.
ParseValue(s, i, mode, depth) ==
    CASE i > Len(s) -> JsonFail
      [] s[i] = 34 -> StringValue(ParseStringBody(s, i + 1, mode # "ignored"))
      [] s[i] \in {123, 91} /\ ~MayEnter(mode, depth) -> JsonFail
      [] s[i] = 123 -> ParseMembers(s, i + 1, << >>, mode, depth + 1)
      [] s[i] = 91 ->
             ParseElements(s, i + 1, << >>,
                           IF mode = "payload" THEN "value" ELSE mode, depth + 1)
      [] LiteralAt(s, i, << 110, 117, 108, 108 >>) ->
             JsonOk([t |-> "null", v |-> << >>], i + 4)
      [] LiteralAt(s, i, << 116, 114, 117, 101 >>) ->
             JsonOk([t |-> "bool", v |-> << 1 >>], i + 4)
      [] LiteralAt(s, i, << 102, 97, 108, 115, 101 >>) ->
             JsonOk([t |-> "bool", v |-> << 0 >>], i + 5)
      [] s[i] = 45 \/ IsDigit(s[i]) -> NumberValue(s, i, NumberEnd(s, i), mode)
      [] OTHER -> JsonFail

\* The value read must be the whole text, but for whitespace.
WholeValue(s, r) ==
    CASE ~r.ok -> JsonFail
      [] SkipJsonWhitespace(s, r.next) <= Len(s) -> JsonFail
      [] OTHER -> r

\* Whether s[k] stands inside a string literal: the quotes before it that
\* no backslash takes are odd in number.
InString(s, k) ==
    Cardinality({ q \in 1..(k - 1) : s[q] = 34 /\ ~IsEscaped(s, 1, q) }) % 2 = 1

\* Whether some array or object of s opens inside 127 others.  Reading
\* such a text fails, at that bracket or at an error before it; the test
\* finds it without descending into the text.
NestsTooDeep(s) ==
    LET brackets == { k \in 1..Len(s) :
                          s[k] \in {91, 93, 123, 125} /\ ~InString(s, k) }
        opened(k) == Cardinality({ b \in brackets : b < k /\ s[b] \in {91, 123} })
        closed(k) == Cardinality({ b \in brackets : b < k /\ s[b] \in {93, 125} })
    IN  /\ Len(s) >= 128
        /\ \E k \in brackets :
               s[k] \in {91, 123} /\ opened(k) - closed(k) >= 127

\* serde_json::from_str::<T>: one value read in the mode of T, whitespace
\* around it, nothing after it.
FromStr(s, mode) ==
    IF mode = "value" /\ NestsTooDeep(s) THEN JsonFail
    ELSE WholeValue(s, ParseValue(s, SkipJsonWhitespace(s, 1), mode, 0))

\* The text read into a serde_json::Value.
ParseJson(s) == FromStr(s, "value")

---------------------------------------------------------------------------
(* Provider payload: types.rs                                              *)

None == [some |-> FALSE, v |-> << >>]

Some(x) == [some |-> TRUE, v |-> x]

\* Deserialize for String, Option<String>, Option<Vec<String>>: whether the
\* value has the type, and the decoded field.
IsString(val) == val.t = "str"

IsOptionString(val) == val.t \in {"null", "str"}

IsOptionVecString(val) ==
    \/ val.t = "null"
    \/ val.t = "arr" /\ \A i \in 1..Len(val.v) : val.v[i].t = "str"

OptionString(val) == IF val.t = "null" THEN None ELSE Some(val.v)

OptionVecString(val) ==
    IF val.t = "null" THEN None
    ELSE Some([i \in 1..Len(val.v) |-> val.v[i].v])

PayloadErr == [ok |-> FALSE]

PayloadOk(translation, alternatives, romanized) ==
    [ok |-> TRUE, translation |-> translation,
     alternatives |-> alternatives, romanized |-> romanized]

\* #[derive(Deserialize)] for ProviderTranslationPayload, from a map: a
\* known field may occur once, `translation` must occur, other keys are
\* ignored.
PayloadFromObject(members) ==
    LET at(f) == { i \in 1..Len(members) : PayloadField(members[i][1]) = f }
        only(f) == members[CHOOSE i \in at(f) : TRUE][2]
    IN  IF \E f \in {"translation", "alternatives", "romanized"} :
               Cardinality(at(f)) > 1
        THEN PayloadErr
        ELSE IF at("translation") = {} THEN PayloadErr
        ELSE IF ~IsString(only("translation")) THEN PayloadErr
        ELSE IF at("alternatives") # {} /\ ~IsOptionVecString(only("alternatives"))
             THEN PayloadErr
        ELSE IF at("romanized") # {} /\ ~IsOptionString(only("romanized"))
             THEN PayloadErr
        ELSE PayloadOk(only("translation").v,
                       IF at("alternatives") = {} THEN None
                       ELSE OptionVecString(only("alternatives")),
                       IF at("romanized") = {} THEN None
                       ELSE OptionString(only("romanized")))

\* ... and from a sequence: exactly the three fields in declaration order.
PayloadFromArray(elements) ==
    IF Len(elements) # 3 THEN PayloadErr
    ELSE IF ~IsString(elements[1]) THEN PayloadErr
    ELSE IF ~IsOptionVecString(elements[2]) THEN PayloadErr
    ELSE IF ~IsOptionString(elements[3]) THEN PayloadErr
    ELSE PayloadOk(elements[1].v, OptionVecString(elements[2]),
                   OptionString(elements[3]))

\* Deserialize for ProviderTranslationPayload from the value parsed.
PayloadFromValue(r) ==
    CASE ~r.ok -> PayloadErr
      [] r.val.t = "obj" -> PayloadFromObject(r.val.v)
      [] r.val.t = "arr" -> PayloadFromArray(r.val.v)
      [] OTHER -> PayloadErr

\* serde_json::from_str::<ProviderTranslationPayload>(json_str)
from_str_payload(json_str) == PayloadFromValue(FromStr(json_str, "payload"))

---------------------------------------------------------------------------
(* Translation client, content decode: translator.rs                       *)

\* content.find(c): index of the first c, 0 when there is none.
find(s, c) ==
    IF \A i \in 1..Len(s) : s[i] # c THEN 0
    ELSE CHOOSE i \in 1..Len(s) : s[i] = c /\ \A k \in 1..(i - 1) : s[k] # c

\* content.rfind(c): index of the last c, 0 when there is none.
rfind(s, c) ==
    IF \A i \in 1..Len(s) : s[i] # c THEN 0
    ELSE CHOOSE i \in 1..Len(s) : s[i] = c /\ \A k \in (i + 1)..Len(s) : s[k] # c

\* &content[start..=end]: the slice, or a panic ("slice index starts at ..
\* but ends at ..") when end + 1 < start.
SliceInclusive(s, start, end) ==
    IF end + 1 < start THEN [panic |-> TRUE, str |-> << >>]
    ELSE [panic |-> FALSE, str |-> SubSeq(s, start, end)]

Panic == [kind |-> "Panic"]

OkPayload(translation, alternatives, romanized) ==
    [kind |-> "Ok", translation |-> translation,
     alternatives |-> alternatives, romanized |-> romanized]

\* match serde_json::from_str(json_str): the payload decoded, or the whole
\* content, trimmed, as the translation.
PayloadOrFallback(content, parsed) ==
    IF parsed.ok
    THEN OkPayload(parsed.translation, parsed.alternatives, parsed.romanized)
    ELSE OkPayload(trim(content), None, None)

\* fn parse_json_content(&self, content: &str) -> Result<ProviderTranslationPayload>
parse_json_content(content) ==
    LET start == find(content, 123)
        end == rfind(content, 125)
    IN  CASE start = 0 \/ end = 0 ->
                 PayloadOrFallback(content, from_str_payload(content))
          [] SliceInclusive(content, start, end).panic -> Panic
          [] OTHER ->
                 PayloadOrFallback(content,
                     from_str_payload(SliceInclusive(content, start, end).str))

---------------------------------------------------------------------------
(* Translation client, endpoint: translator.rs, Translator::new            *)
(*                                                                         *)
(* Url::parse and Url::join of the url crate follow the WHATWG URL         *)
(* standard.  A parsed Url is modelled by its serialized components:       *)
(*   scheme            lower-cased                                         *)
(*   authority         None, or Some of [userinfo@]host[:port]             *)
(*   path              with its dot segments resolved                      *)
(*   query, fragment   None, or Some of the text after '?' and after '#'   *)
(*   cannot_be_a_base  a URL like mailto:a@b, whose path is opaque         *)
(* The result is "Ok" with these, "Err" for a text Url::parse refuses, or  *)
(* "Outside" for a text beyond the URLs modelled: one with a character     *)
(* outside printable ASCII, the file scheme, an IPv6 host, a '%' or an     *)
(* "xn--" label in the host of a special scheme, a character that would    *)
(* be percent-encoded in the userinfo, path, query or fragment, a '\' in   *)
(* the port of a scheme that is not special, and a path that would start   *)
(* with "//" without an authority.                                         *)

\* Whether `suffix` ends s (str::ends_with).
ends_with(s, suffix) ==
    /\ Len(suffix) <= Len(s)
    /\ SubSeq(s, Len(s) - Len(suffix) + 1, Len(s)) = suffix

\* "chat/completions"
ChatCompletions == << 99, 104, 97, 116, 47, 99, 111, 109, 112, 108, 101, 116, 105, 111, 110, 115 >>

\* Index of the first character of s at or after `from` that is in `stops`;
\* Len(s)+1 when there is none.
FindAny(s, from, stops) ==
    CHOOSE j \in from..(Len(s) + 1) :
        /\ (j = Len(s) + 1 \/ s[j] \in stops)
        /\ \A k \in from..(j - 1) : s[k] \notin stops

UrlErr == [kind |-> "Err"]

UrlOutside == [kind |-> "Outside"]

UrlOk(scheme, authority, path, query, fragment, cannot_be_a_base) ==
    [kind |-> "Ok", scheme |-> scheme, authority |-> authority,
     path |-> path, query |-> query, fragment |-> fragment,
     cannot_be_a_base |-> cannot_be_a_base]

\* Whether some character of s is in `set`.
HasAny(s, set) == \E k \in 1..Len(s) : s[k] \in set

\* The pieces of s between the characters in `seps`: always at least one.
SplitAny(s, seps) ==
    LET at == Sorted({ k \in 1..Len(s) : s[k] \in seps })
        n == Len(at)
    IN  [m \in 1..(n + 1) |->
            SubSeq(s, IF m = 1 THEN 1 ELSE at[m - 1] + 1,
                      IF m = n + 1 THEN Len(s) ELSE at[m] - 1)]

\* str::to_ascii_lowercase
Lower(s) == [k \in 1..Len(s) |-> ToLower(s[k])]

\* Input::new: the text without its leading and trailing C0 control
\* characters and spaces.
TrimC0ControlAndSpace(s) ==
    LET keep == { k \in 1..Len(s) : s[k] > 32 }
    IN  IF keep = {} THEN << >>
        ELSE SubSeq(s, CHOOSE k \in keep : \A l \in keep : k <= l,
                       CHOOSE k \in keep : \A l \in keep : l <= k)

\* Input's iterator: tab and newline characters are skipped wherever they
\* stand.
WithoutTabAndNewline(s) == SelectSeq(s, LAMBDA c : c \notin {9, 10, 13})

\* The characters of a scheme after its first letter.
IsSchemeChar(c) == IsLatin(c) \/ IsDigit(c) \/ c \in {43, 45, 46}

\* "http", "https", "ws", "wss", "ftp": SchemeType::SpecialNotFile
SpecialSchemes ==
    { << 104, 116, 116, 112 >>, << 104, 116, 116, 112, 115 >>,
      << 119, 115 >>, << 119, 115, 115 >>, << 102, 116, 112 >> }

\* default_port(scheme), -1 when the scheme has none.
default_port(scheme) ==
    CASE scheme \in { << 104, 116, 116, 112 >>, << 119, 115 >> } -> 80
      [] scheme \in { << 104, 116, 116, 112, 115 >>, << 119, 115, 115 >> } -> 443
      [] scheme = << 102, 116, 112 >> -> 21
      [] OTHER -> -1

\* A number below 100000 in decimal.
Decimal(n) ==
    LET d == << n \div 10000, (n \div 1000) % 10, (n \div 100) % 10,
                (n \div 10) % 10, n % 10 >>
        digits == IF n = 0 THEN << 0 >> ELSE StripZeros(d)
    IN  [k \in 1..Len(digits) |-> digits[k] + 48]

\* Parser::parse_port on the text between the host's ':' and the path:
\* decimal digits, at most u16::MAX; no port when there is no digit or the
\* port is the default of the scheme.  The result is the text the port
\* adds to the authority.
parse_port(text, scheme) ==
    LET digits == StripZeros(Digits(text, 1, Len(text)))
    IN  CASE \E k \in 1..Len(text) : ~IsDigit(text[k]) -> UrlErr
          [] Len(digits) > 5 -> UrlErr
          [] DecimalValue(digits) > 65535 -> UrlErr
          [] Len(text) = 0 \/ DecimalValue(digits) = default_port(scheme) ->
                 [kind |-> "Ok", text |-> << >>]
          [] OTHER ->
                 [kind |-> "Ok", text |-> << 58 >> \o Decimal(DecimalValue(digits))]

\* The characters the userinfo percent-encode set takes from printable ASCII.
UserinfoEncoded ==
    { 32, 34, 35, 47, 58, 59, 60, 61, 62, 63, 64, 91, 92, 93, 94, 96, 123, 124, 125 }

\* Parser::parse_userinfo on the text before the last '@' of the
\* authority: the user name up to the first ':', the password after it; an
\* empty password loses its ':', an empty userinfo its '@'.
parse_userinfo(text) ==
    LET colon == FindAny(text, 1, {58})
        username == SubSeq(text, 1, colon - 1)
        password == Suffix(text, colon + 1)
    IN  CASE HasAny(username, UserinfoEncoded) \/ HasAny(password, UserinfoEncoded) ->
                 UrlOutside
          [] Len(username) = 0 /\ Len(password) = 0 ->
                 [kind |-> "Ok", text |-> << >>]
          [] OTHER ->
                 [kind |-> "Ok",
                  text |-> username
                           \o (IF Len(password) > 0 THEN << 58 >> \o password
                               ELSE << >>)
                           \o << 64 >>]

\* One digit more of a number kept as [hi, lo] with value hi * 2^16 + lo;
\* `over` once the value has left u32.
RadixStep(prev, radix, digit) ==
    LET lo == prev.lo * radix + digit
        hi == prev.hi * radix + lo \div 65536
    IN  IF prev.over \/ hi >= 65536 THEN [hi |-> 0, lo |-> 0, over |-> TRUE]
        ELSE [hi |-> hi, lo |-> lo % 65536, over |-> FALSE]

RECURSIVE RadixValue(_, _, _)
\* u32::from_str_radix on the first n of the digits (values 0..15).
RadixValue(digits, radix, n) ==
    IF n = 0 THEN [hi |-> 0, lo |-> 0, over |-> FALSE]
    ELSE RadixStep(RadixValue(digits, radix, n - 1), radix, digits[n])

\* parse_ipv4number: the number a part of an IPv4 host writes, in
\* hexadecimal after 0x or 0X, in octal after another leading 0, else in
\* decimal; `valid` is FALSE for an empty part or a wrong digit, `over` is
\* TRUE for a number beyond u32.
parse_ipv4number(part) ==
    LET hex == Len(part) >= 2 /\ part[1] = 48 /\ part[2] \in {120, 88}
        octal == ~hex /\ Len(part) >= 2 /\ part[1] = 48
        radix == IF hex THEN 16 ELSE IF octal THEN 8 ELSE 10
        rest == IF hex THEN Suffix(part, 3) ELSE IF octal THEN Suffix(part, 2) ELSE part
        digits == StripZeros([k \in 1..Len(rest) |-> HexValue(rest[k])])
    IN  IF Len(part) = 0 \/ \E k \in 1..Len(rest) : HexValue(rest[k]) \notin 0..(radix - 1)
        THEN [valid |-> FALSE, hi |-> 0, lo |-> 0, over |-> FALSE]
        ELSE IF Len(digits) > 11
        THEN [valid |-> TRUE, hi |-> 0, lo |-> 0, over |-> TRUE]
        ELSE [valid |-> TRUE] @@ RadixValue(digits, radix, Len(digits))

\* ends_in_a_number: whether the last part of the domain (the one before a
\* final '.') is a number.
ends_in_a_number(domain) ==
    LET parts == SplitAny(domain, {46})
        n == Len(parts)
        last == IF Len(parts[n]) = 0 /\ n > 1 THEN parts[n - 1] ELSE parts[n]
    IN  /\ ~(Len(parts[n]) = 0 /\ n = 1)
        /\ \/ Len(last) > 0 /\ \A k \in 1..Len(last) : IsDigit(last[k])
           \/ parse_ipv4number(last).valid

\* parse_ipv4addr: at most four numbers, all but the last below 256, the
\* last one filling the octets that are left; the address is written
\* a.b.c.d.
parse_ipv4addr(domain) ==
    LET all == SplitAny(domain, {46})
        parts == IF Len(all[Len(all)]) = 0 THEN SubSeq(all, 1, Len(all) - 1) ELSE all
        n == Len(parts)
        number(m) == parse_ipv4number(parts[m])
        last == number(n)
        octet(k) ==
            IF k < n THEN number(k).lo
            ELSE CASE k = 1 -> last.hi \div 256
                   [] k = 2 -> last.hi % 256
                   [] k = 3 -> last.lo \div 256
                   [] OTHER -> last.lo % 256
        fits == CASE n = 1 -> TRUE
                  [] n = 2 -> last.hi < 256
                  [] n = 3 -> last.hi = 0
                  [] OTHER -> last.hi = 0 /\ last.lo < 256
    IN  CASE n > 4 -> UrlErr
          [] \E m \in 1..n : ~number(m).valid \/ number(m).over -> UrlErr
          [] ~fits -> UrlErr
          [] \E m \in 1..(n - 1) : number(m).hi > 0 \/ number(m).lo > 255 -> UrlErr
          [] OTHER ->
                 [kind |-> "Ok",
                  host |-> join([k \in 1..4 |-> Decimal(octet(k))], << 46 >>)]

\* The forbidden host code points of printable ASCII:
\* space # / : < > ? @ [ \ ] ^ |
ForbiddenHost == { 32, 35, 47, 58, 60, 62, 63, 64, 91, 92, 93, 94, 124 }

\* "xn--"
PunycodePrefix == << 120, 110, 45, 45 >>

\* Host::parse, the host of a special scheme: a domain, lower-cased, or an
\* IPv4 address when it ends in a number.
parse_host(input) ==
    LET domain == Lower(input)
        labels == SplitAny(domain, {46})
    IN  CASE Len(input) = 0 -> UrlErr
          [] HasAny(input, {37}) -> UrlOutside
          [] HasAny(input, ForbiddenHost) -> UrlErr
          [] \E m \in 1..Len(labels) : take(labels[m], 4) = PunycodePrefix ->
                 UrlOutside
          [] ends_in_a_number(domain) -> parse_ipv4addr(domain)
          [] OTHER -> [kind |-> "Ok", host |-> domain]

\* Host::parse_opaque, the host of a scheme that is not special: kept as
\* written, and it may be empty.
parse_opaque(input) ==
    IF HasAny(input, ForbiddenHost) THEN UrlErr
    ELSE [kind |-> "Ok", host |-> input]

\* Path segments that stand for "." and for "..", lower-cased.
SingleDot == { << 46 >>, << 37, 50, 101 >> }

DoubleDot ==
    { << 46, 46 >>, << 46, 37, 50, 101 >>, << 37, 50, 101, 46 >>,
      << 37, 50, 101, 37, 50, 101 >> }

\* starts_with_windows_drive_letter on a segment as it stands before its
\* '/': a letter, then ':' or '|', then nothing or a '\'.
starts_with_windows_drive_letter(segment) ==
    /\ Len(segment) >= 2
    /\ IsLatin(segment[1])
    /\ segment[2] \in {58, 124}
    /\ (Len(segment) = 2 \/ segment[3] = 92)

\* The path after one more segment: ".." removes the last segment, if any,
\* unless that one starts with a drive letter (last_slash_can_be_removed
\* keeps its '/', in every scheme); "." and ".." leave an empty segment
\* when they are the last.
PathStep(path, segment, last) ==
    LET shortened ==
            IF Len(path) > 0 /\ starts_with_windows_drive_letter(path[Len(path)])
            THEN path
            ELSE SubSeq(path, 1, Len(path) - 1)
    IN  CASE Lower(segment) \in DoubleDot ->
                 IF last THEN Append(shortened, << >>) ELSE shortened
          [] Lower(segment) \in SingleDot ->
                 IF last THEN Append(path, << >>) ELSE path
          [] OTHER -> Append(path, segment)

RECURSIVE PathSegments(_, _)
\* The path after the first n of the segments.
PathSegments(segments, n) ==
    IF n = 0 THEN << >>
    ELSE PathStep(PathSegments(segments, n - 1), segments[n], n = Len(segments))

\* The characters the path percent-encode set takes from printable ASCII
\* (other than '#' and '?', which end the path).
PathEncoded == { 32, 34, 60, 62, 94, 96, 123, 125 }

\* Parser::parse_path on the text after the path's first '/': the
\* segments between '/' (and '\' in a special scheme), dot segments
\* resolved, written after "/".
parse_path(special, text) ==
    LET segments == SplitAny(text, IF special THEN {47, 92} ELSE {47})
    IN  << 47 >> \o join(PathSegments(segments, Len(segments)), << 47 >>)

\* Parser::parse_query_and_fragment on the text that begins at the first
\* '?' or '#' after the path (or is empty).
QueryOf(rest) ==
    IF Len(rest) > 0 /\ rest[1] = 63
    THEN Some(SubSeq(rest, 2, FindAny(rest, 1, {35}) - 1))
    ELSE None

FragmentOf(rest) ==
    IF HasAny(rest, {35}) THEN Some(Suffix(rest, FindAny(rest, 1, {35}) + 1))
    ELSE None

\* Whether the query or the fragment has a character that would be
\* percent-encoded: space " < > (and ' in the query of a special scheme,
\* ` in the fragment).
TailEncoded(special, rest) ==
    \/ QueryOf(rest).some
           /\ HasAny(QueryOf(rest).v, {32, 34, 60, 62} \cup (IF special THEN {39} ELSE {}))
    \/ FragmentOf(rest).some /\ HasAny(FragmentOf(rest).v, {32, 34, 60, 62, 96})

\* The URL from its scheme, its authority and the text after the
\* authority (Parser::parse_path_start and with_query_and_fragment).  A
\* special scheme always has a path; another one has none before '?', '#'
\* or the end.
WithPath(scheme, authority, remaining) ==
    LET special == scheme \in SpecialSchemes
        slash == Len(remaining) > 0
                 /\ remaining[1] \in (IF special THEN {47, 92} ELSE {47})
        from == IF slash THEN 2 ELSE 1
        end == FindAny(remaining, from, {63, 35})
        text == SubSeq(remaining, from, end - 1)
        rest == Suffix(remaining, end)
        path == IF special \/ slash THEN parse_path(special, text) ELSE << >>
    IN  CASE HasAny(text, PathEncoded) \/ TailEncoded(special, rest) -> UrlOutside
          [] ~authority.some /\ take(path, 2) = << 47, 47 >> -> UrlOutside
          [] OTHER ->
                 UrlOk(scheme, authority, path, QueryOf(rest), FragmentOf(rest),
                       FALSE)

\* The authority from its parsed parts: an error of the host or the port
\* is that of the whole, and a userinfo needs a host.
WithAuthority(scheme, userinfo, host, port, remaining) ==
    CASE host.kind = "Err" \/ port.kind = "Err" -> UrlErr
      [] host.kind # "Ok" -> host
      [] userinfo.kind # "Ok" -> userinfo
      [] Len(host.host) = 0 /\ Len(userinfo.text) > 0 -> UrlErr
      [] OTHER ->
             WithPath(scheme, Some(userinfo.text \o host.host \o port.text),
                      remaining)

\* Parser::after_double_slash: the authority up to the first '/', '?' or
\* '#' (or '\' in a special scheme), its userinfo before the last '@',
\* its port after the first ':' of the rest; then the path.
after_double_slash(scheme, input) ==
    LET special == scheme \in SpecialSchemes
        stops == IF special THEN {47, 92, 63, 35} ELSE {47, 63, 35}
        end == FindAny(input, 1, stops)
        authority == SubSeq(input, 1, end - 1)
        ats == { k \in 1..Len(authority) : authority[k] = 64 }
        at == IF ats = {} THEN 0 ELSE CHOOSE k \in ats : \A l \in ats : l <= k
        hostport == Suffix(authority, at + 1)
        colon == FindAny(hostport, 1, {58})
        host == SubSeq(hostport, 1, colon - 1)
        port == Suffix(hostport, colon + 1)
    IN  CASE at = 1 /\ Len(hostport) = 0 /\ end <= Len(input) -> UrlErr
          [] Len(hostport) > 0 /\ hostport[1] = 91 -> UrlOutside
          [] Len(host) = 0 /\ (special \/ colon <= Len(hostport)) -> UrlErr
          [] ~special /\ ~HasAny(host, ForbiddenHost) /\ HasAny(port, {92}) ->
                 UrlOutside
          [] OTHER ->
                 WithAuthority(scheme,
                               parse_userinfo(SubSeq(authority, 1, at - 1)),
                               IF special THEN parse_host(host)
                               ELSE parse_opaque(host),
                               parse_port(port, scheme),
                               Suffix(input, end))

\* "file"
FileScheme == << 102, 105, 108, 101 >>

\* Parser::parse_with_scheme on the text after "scheme:".  A special
\* scheme takes any number of '/' and '\' before its authority; another
\* one has an authority after "//", a path after "/", and is a
\* cannot-be-a-base URL otherwise.
parse_with_scheme(scheme, input) ==
    LET end == FindAny(input, 1, {63, 35})
    IN  CASE scheme = FileScheme -> UrlOutside
          [] scheme \in SpecialSchemes ->
                 after_double_slash(scheme,
                     Suffix(input, CHOOSE j \in 1..(Len(input) + 1) :
                                       /\ (j = Len(input) + 1 \/ input[j] \notin {47, 92})
                                       /\ \A k \in 1..(j - 1) : input[k] \in {47, 92}))
          [] take(input, 2) = << 47, 47 >> ->
                 after_double_slash(scheme, Suffix(input, 3))
          [] take(input, 1) = << 47 >> -> WithPath(scheme, None, input)
          [] TailEncoded(FALSE, Suffix(input, end)) -> UrlOutside
          [] OTHER ->
                 UrlOk(scheme, None, SubSeq(input, 1, end - 1),
                       QueryOf(Suffix(input, end)), FragmentOf(Suffix(input, end)),
                       TRUE)

\* Parser::parse_scheme: the index of the ':' that ends the scheme, 0 when
\* the text does not begin with a scheme (a letter, then letters, digits,
\* '+', '-' and '.').
SchemeEnd(s) ==
    LET j == CHOOSE j \in 1..(Len(s) + 1) :
                 /\ (j = Len(s) + 1 \/ ~IsSchemeChar(s[j]))
                 /\ \A k \in 1..(j - 1) : IsSchemeChar(s[k])
    IN  IF Len(s) > 0 /\ IsLatin(s[1]) /\ j <= Len(s) /\ s[j] = 58 THEN j ELSE 0

\* The parse of the input once trimmed; a text without a scheme is a
\* relative URL and there is no base (ParseError::RelativeUrlWithoutBase).
ParseTrimmedUrl(s) ==
    CASE SchemeEnd(s) = 0 -> UrlErr
      [] \E k \in 1..Len(s) : s[k] \notin 32..126 -> UrlOutside
      [] OTHER ->
             parse_with_scheme(Lower(SubSeq(s, 1, SchemeEnd(s) - 1)),
                               Suffix(s, SchemeEnd(s) + 1))

\* Url::parse
url_parse(s) == ParseTrimmedUrl(WithoutTabAndNewline(TrimC0ControlAndSpace(s)))

\* Url::join with a reference that is a relative path without dot
\* segments: the base path up to and including its last '/' ("/" when the
\* base has no path), then the reference; the base's query and fragment
\* are dropped.  A cannot-be-a-base URL has nothing to join to.
url_join(base, reference) ==
    IF base.cannot_be_a_base THEN UrlErr
    ELSE UrlOk(base.scheme, base.authority,
               (IF Len(base.path) = 0 THEN << 47 >>
                ELSE SubSeq(base.path, 1, rfind(base.path, 47))) \o reference,
               None, None, FALSE)

\* The error of Client::builder().build() (lines 19-21).
ClientErr == [kind |-> "Err", error |-> "Client"]

\* pub fn new(config: Config) -> Result<Self>: the endpoint of the
\* translator built, or the error of the client builder, of Url::parse or
\* of Url::join.  Whether the HTTP client can be built (its TLS backend
\* initialised) is an input.
new(translation_api_url, client_builds) ==
    LET endpoint == url_parse(translation_api_url)
    IN  CASE ~client_builds -> ClientErr
          [] endpoint.kind # "Ok" -> endpoint
          [] ends_with(endpoint.path, << 47 >> \o ChatCompletions) -> endpoint
          [] OTHER -> url_join(endpoint, ChatCompletions)

---------------------------------------------------------------------------
(* Translation client, the call: translator.rs, Translator::translate      *)
(*                                                                         *)
(* The provider's behaviour is an input of the call:                       *)
(*   sent          whether send() produced a response (FALSE: connection   *)
(*                 error or timeout)                                       *)
(*   status        the HTTP status of the response                         *)
(*   body_readable whether the body could be read                          *)
(*   body          the body text                                           *)
(*   elapsed_ms    the wall-clock time of the call                         *)

\* impl Display for LanguageCode
Display(lang) == IF lang = "En" THEN << 101, 110 >> ELSE << 122, 104 >>

\* format!("src={};tgt={};text={}", ...)
prompt(request) ==
    << 115, 114, 99, 61 >> \o Display(request.source_lang)
    \o << 59, 116, 103, 116, 61 >> \o Display(request.target_lang)
    \o << 59, 116, 101, 120, 116, 61 >> \o request.text

\* StatusCode::is_success
is_success(status) == status \in 200..299

JsonNull == [t |-> "null", v |-> << >>]

\* serde_json::Value indexing by key: the value of the key (the last one
\* when the key is repeated), Null for a missing key or a non-object.
IndexKey(val, key) ==
    LET at == IF val.t = "obj"
              THEN { i \in 1..Len(val.v) : val.v[i][1] = key }
              ELSE {}
    IN  IF at = {} THEN JsonNull
        ELSE val.v[CHOOSE i \in at : \A k \in at : k <= i][2]

\* serde_json::Value indexing by 0: the first element, Null for an empty
\* array or a non-array.
IndexFirst(val) ==
    IF val.t = "arr" /\ Len(val.v) > 0 THEN val.v[1] ELSE JsonNull

\* payload["choices"][0]["message"]["content"]
ContentOf(payload) ==
    IndexKey(IndexKey(IndexFirst(IndexKey(payload, << 99, 104, 111, 105, 99, 101, 115 >>)), << 109, 101, 115, 115, 97, 103, 101 >>), << 99, 111, 110, 116, 101, 110, 116 >>)

TranslateErr(error, status, text) ==
    [kind |-> "Err", error |-> error, status |-> status, text |-> text]

TranslateOk(primary_text, alternate_texts, romanized_text, latency) ==
    [kind |-> "Ok", primary_text |-> primary_text,
     alternate_texts |-> alternate_texts, romanized_text |-> romanized_text,
     provider_latency_ms |-> latency]

\* parsed.romanized.filter(|s| !s.trim().is_empty())
NonBlank(opt) == IF opt.some /\ Len(trim(opt.v)) > 0 THEN opt ELSE None

\* The result built from the decoded payload, passing the decoded alternatives
\* on instead of dropping them.
result_keeping_alternatives(parsed, latency) ==
    IF parsed.kind = "Panic" THEN Panic
    ELSE TranslateOk(parsed.translation,
                     IF parsed.alternatives.some THEN parsed.alternatives.v
                     ELSE << >>,
                     NonBlank(parsed.romanized), latency)

\* Ok(TranslationResult { .. }) (lines 71-78): the result built from the
\* decoded payload.
TranslationResult(parsed, latency) ==
    IF parsed.kind = "Panic" THEN Panic
    ELSE TranslateOk(parsed.translation, << >>, NonBlank(parsed.romanized),
                     latency)

\* The content string of the envelope, decoded (lines 67-78).
ResultFromContent(content, latency) ==
    IF content.t # "str" THEN TranslateErr("MissingContent", 0, << >>)
    ELSE TranslationResult(parse_json_content(content.v), latency)

\* The envelope read by response.json() (lines 65-78).
ResultFromPayload(payload, latency) ==
    IF ~payload.ok THEN TranslateErr("Body", 0, << >>)
    ELSE ResultFromContent(ContentOf(payload.val), latency)

\* translate from response.json() on (lines 65-78): the envelope, its
\* content string, the lenient decode, the result.
ResultFromBody(response) ==
    IF ~response.body_readable THEN TranslateErr("Body", 0, << >>)
    ELSE ResultFromPayload(ParseJson(response.body), response.elapsed_ms)

\* bail!("Translation provider failed ({}): {}", status, text) with
\* text = response.text().await.unwrap_or_default() (lines 60-62).
ProviderFailed(response) ==
    TranslateErr("ProviderFailed", response.status,
                 IF response.body_readable THEN response.body ELSE << >>)

\* Where translate goes when send().await resolves, without the status
\* check.
after_send_ignoring_status(response) ==
    IF ~response.sent THEN "return" ELSE "awaiting_json"

\* Where translate goes when send().await resolves (lines 51-65): it
\* returns the error of send, or awaits the body as text (status outside
\* 2xx) or as JSON.
AfterSend(response) ==
    CASE ~response.sent -> "return"
      [] ~is_success(response.status) -> "awaiting_text"
      [] OTHER -> "awaiting_json"

\* pub async fn translate(&self, request: TranslationRequest) -> Result<TranslationResult>
\* as a relation between the request, the provider's behaviour and the
\* value returned.
translate(request, response) ==
    CASE AfterSend(response) = "return" -> TranslateErr("Send", 0, << >>)
      [] AfterSend(response) = "awaiting_text" -> ProviderFailed(response)
      [] OTHER -> ResultFromBody(response)

---------------------------------------------------------------------------
(* Rendering helpers: inline.rs                                            *)
(*                                                                         *)
(* An article is [title, content, description]; its id is a fresh random   *)
(* UUID and is left out.                                                   *)

\* Longest description: the `80` of truncate(&.., 80).
DescriptionMax == 80

\* At most this many alternates are listed: the `3` of .take(3).
MaxAlternates == 3

Article(title, content, description) ==
    [title |-> title, content |-> content, description |-> description]

\* s.replace(char::is_whitespace, " ")
SingleLine(s) == [i \in 1..Len(s) |-> IF IsWhitespace(s[i]) THEN 32 ELSE s[i]]

\* A truncate that keeps `max` characters before the ellipsis.
truncate_keeping_max(s, max) ==
    LET trimmed == trim(SingleLine(s))
    IN  IF Len(trimmed) > max THEN Append(take(trimmed, max), 8230)
        ELSE trimmed

\* fn truncate(s: &str, max: usize) -> String
truncate(s, max) ==
    LET trimmed == trim(SingleLine(s))
    IN  IF Len(trimmed) > max THEN Append(take(trimmed, max - 1), 8230)
        ELSE trimmed

\* str::to_uppercase on a language code
ToUpper(s) == [i \in 1..Len(s) |-> IF s[i] \in 97..122 THEN s[i] - 32 ELSE s[i]]

\* format!("\u{1F310} {} \u{2192} {}", SRC, TGT)
Header(parsed) ==
    << 127760, 32 >> \o ToUpper(Display(parsed.source_lang))
    \o << 32, 8594, 32 >> \o ToUpper(Display(parsed.target_lang))

\* " \u{B7} Primary", " \u{B7} Romanized", " \u{B7} Alternatives"
PrimaryTitle == << 32, 183, 32, 80, 114, 105, 109, 97, 114, 121 >>

RomanizedTitle == << 32, 183, 32, 82, 111, 109, 97, 110, 105, 122, 101, 100 >>

AlternativesTitle == << 32, 183, 32, 65, 108, 116, 101, 114, 110, 97, 116, 105, 118, 101,
               115 >>

\* The primary article (lines 113-126).
PrimaryArticle(parsed, translation) ==
    LET primary_display == format_segments_for_display(translation.primary_text)
    IN  Article(Header(parsed) \o PrimaryTitle,
                Header(parsed) \o << 10 >> \o primary_display,
                truncate(primary_display, DescriptionMax))

\* The romanized article (lines 129-140).
RomanizedArticle(parsed, translation) ==
    LET romanized_display ==
            format_segments_for_display(translation.romanized_text.v)
    IN  Article(Header(parsed) \o RomanizedTitle,
                Header(parsed) \o << 10 >> \o romanized_display,
                truncate(romanized_display, DescriptionMax))

\* The alternatives article (lines 143-164).
AlternativesArticle(parsed, translation) ==
    LET shown == take(translation.alternate_texts, MaxAlternates)
        alt_samples == [i \in 1..Len(shown) |-> format_segments_for_display(shown[i])]
        bullets == join([i \in 1..Len(alt_samples) |-> << 8226, 32 >> \o alt_samples[i]],
                        << 10 >>)
    IN  Article(Header(parsed) \o AlternativesTitle,
                Header(parsed) \o << 10 >> \o bullets,
                truncate(alt_samples[1], DescriptionMax))

\* pub fn build_translation_articles(parsed, translation) -> Vec<InlineQueryResult>
build_translation_articles(parsed, translation) ==
    << PrimaryArticle(parsed, translation) >>
    \o (IF translation.romanized_text.some
        THEN << RomanizedArticle(parsed, translation) >> ELSE << >>)
    \o (IF Len(translation.alternate_texts) > 0
        THEN << AlternativesArticle(parsed, translation) >> ELSE << >>)

\* pub fn build_help_article(default_source, default_target) -> InlineQueryResult
build_help_article(default_source, default_target) ==
    Article(<< 72, 111, 119, 32, 116, 111, 32, 116, 114, 97, 110, 115, 108, 97,
               116, 101 >>,
            << 84, 121, 112, 101, 32, 115, 111, 109, 101, 116, 104, 105, 110, 103,
               32, 97, 102, 116, 101, 114, 32, 116, 104, 101, 32, 98,
               111, 116, 32, 104, 97, 110, 100, 108, 101, 46, 32, 85,
               115, 101, 32, 34, 124, 34, 32, 116, 111, 32, 115, 101,
               112, 97, 114, 97, 116, 101, 32, 115, 101, 103, 109,
               101, 110, 116, 115, 32, 119, 104, 101, 110, 32, 121,
               111, 117, 32, 119, 97, 110, 116, 32, 103, 114, 111,
               117, 112, 101, 100, 32, 116, 114, 97, 110, 115, 108,
               97, 116, 105, 111, 110, 115, 32, 40, 116, 111, 112,
               105, 99, 32, 124, 32, 100, 101, 116, 97, 105, 108, 41,
               46, 10, 69, 120, 97, 109, 112, 108, 101, 115, 58, 10,
               8226, 32, 64, 121, 111, 117, 114, 98, 111, 116, 32,
               101, 110, 62, 122, 104, 58, 32, 115, 117, 115, 116, 97,
               105, 110, 97, 98, 105, 108, 105, 116, 121, 32, 114,
               111, 97, 100, 109, 97, 112, 32, 124, 32, 50, 48, 50,
               53, 32, 103, 111, 97, 108, 115, 10, 8226, 32, 64, 121,
               111, 117, 114, 98, 111, 116, 32, 122, 104, 62, 101,
               110, 58, 32, 24320, 20250, 25512, 36831, 21040, 20960,
               28857, 63, 10, 68, 101, 102, 97, 117, 108, 116, 115,
               32, 116, 111, 32 >>
            \o Display(default_source) \o << 8594 >> \o Display(default_target)
            \o << 32, 119, 104, 101, 110, 32, 110, 111, 116, 32, 100, 101, 116, 101,
               99, 116, 97, 98, 108, 101, 46 >>,
            << 80, 114, 101, 102, 105, 120, 32, 119, 105, 116, 104, 32, 101, 110,
               62, 122, 104, 32, 111, 114, 32, 122, 104, 62, 101, 110,
               44, 32, 97, 110, 100, 32, 117, 115, 101, 32, 124, 32,
               116, 111, 32, 115, 112, 108, 105, 116, 32, 115, 101,
               110, 116, 101, 110, 99, 101, 115, 46 >>)

\* pub fn build_error_article(message: &str) -> InlineQueryResult
build_error_article(message) ==
    Article(<< 84, 114, 97, 110, 115, 108, 97, 116, 105, 111, 110, 32, 102, 97,
               105, 108, 101, 100 >>,
            << 9888, 65039, 32, 84, 114, 97, 110, 115, 108, 97, 116, 105, 111,
               110, 32, 102, 97, 105, 108, 101, 100, 58, 32 >> \o message,
            message)

---------------------------------------------------------------------------
(* Inputs of the call/return specifications                                *)

\* Inline queries handled concurrently.
NumEvents == 2

\* Longest short text drawn character by character.
MaxBodyLen == 3

\* How far below and above MAX_TEXT_LENGTH the long texts reach.
Slack == 2

RECURSIVE StringsUpTo(_, _)
StringsUpTo(alphabet, n) ==
    IF n = 0 THEN { << >> }
    ELSE LET shorter == StringsUpTo(alphabet, n - 1)
         IN  shorter \cup { Append(s, c) : s \in shorter, c \in alphabet }

Repeat(c, n) == [i \in 1..n |-> c]

\* 'a', ' ', '|', U+4E2D, '1'
BodyAlphabet == {97, 32, 124, 20013, 49}

\* Texts whose length straddles MAX_TEXT_LENGTH, of one-byte ('a') or
\* three-byte (U+4E2D) characters, ending in "|z" so that the last segment
\* and the marker 'z' lie at or beyond the limit.
LongBodies ==
    { Repeat(c, n) \o tail :
        c \in {97, 20013},
        n \in (MAX_TEXT_LENGTH - Slack)..(MAX_TEXT_LENGTH + Slack),
        tail \in { << >>, << 124, 122 >> } }

ShortBodies == StringsUpTo(BodyAlphabet, MaxBodyLen)

\* "", "en>zh:", "ZH -> En :", "zh->EN", " En >zh: "
Prefixes ==
    { << >>,
      << 101, 110, 62, 122, 104, 58 >>,
      << 90, 72, 32, 45, 62, 32, 69, 110, 32, 58 >>,
      << 122, 104, 45, 62, 69, 78 >>,
      << 32, 69, 110, 32, 62, 122, 104, 58, 32 >> }

\* "", "en>zh: "
LongPrefixes ==
    { << >>,
      << 101, 110, 62, 122, 104, 58, 32 >> }

\* Short texts under every default and detector answer; long texts under
\* the defaults En -> Zh.
ParseArgs ==
    [ raw_query : { p \o b : p \in Prefixes, b \in ShortBodies },
      default_source : LanguageCodes,
      default_target : LanguageCodes,
      detected : DetectorAnswers ]
    \cup
    [ raw_query : { p \o b : p \in LongPrefixes, b \in LongBodies },
      default_source : {"En"},
      default_target : {"Zh"},
      detected : {"Eng", "Other"} ]

Pending == [kind |-> "Pending"]

\* In the call/return specifications no inline query is being handled.
DefaultConfig == [default_source_lang |-> "En", default_target_lang |-> "Zh"]

Events == 1..NumEvents

NoResponse ==
    [sent |-> FALSE, status |-> 0, body_readable |-> FALSE, body |-> << >>,
     elapsed_ms |-> 0]

IdleHandler ==
    [pc |-> "idle", query |-> << >>, detected |-> "None", parsed |-> Pending,
     requests |-> << >>, response |-> NoResponse, outcome |-> Pending,
     answers |-> << >>]

HandlersIdle ==
    /\ config = DefaultConfig
    /\ handlers = [e \in Events |-> IdleHandler]

---------------------------------------------------------------------------
(* SpecParse: one call of parse_inline_query                               *)

InitParse ==
    /\ op = "parse_inline_query"
    /\ arg \in ParseArgs
    /\ pc = "call"
    /\ ret = Pending
    /\ HandlersIdle

CallParse ==
    /\ op = "parse_inline_query"
    /\ pc = "call"
    /\ ret' = parse_inline_query(arg.raw_query, arg.default_source,
                                 arg.default_target, arg.detected)
    /\ pc' = "return"
    /\ UNCHANGED << op, arg, handler_vars >>

NextParse == CallParse

SpecParse == InitParse /\ [][NextParse]_vars

---------------------------------------------------------------------------
(* SpecNormalize: normalize_segments applied once, then to its own result  *)

\* Longest text drawn for normalize_segments.
MaxNormLen == 4

\* 'a', ' ', '|', TAB
NormAlphabet == {97, 32, 124, 9}

InitNormalize ==
    /\ op = "normalize_segments"
    /\ arg \in [ s : StringsUpTo(NormAlphabet, MaxNormLen) ]
    /\ pc = "call"
    /\ ret = Pending
    /\ HandlersIdle

NormalizeOnce ==
    /\ op = "normalize_segments"
    /\ pc = "call"
    /\ ret' = [kind |-> "Once", once |-> normalize_segments(arg.s)]
    /\ pc' = "again"
    /\ UNCHANGED << op, arg, handler_vars >>

NormalizeAgain ==
    /\ op = "normalize_segments"
    /\ pc = "again"
    /\ ret' = [kind |-> "Twice", once |-> ret.once,
               twice |-> normalize_segments(ret.once)]
    /\ pc' = "return"
    /\ UNCHANGED << op, arg, handler_vars >>

NextNormalize == NormalizeOnce \/ NormalizeAgain

SpecNormalize == InitNormalize /\ [][NextNormalize]_vars

---------------------------------------------------------------------------
(* SpecDecode: one call of parse_json_content                              *)

\* Longest content drawn character by character from '{', '}', ' ', 'x'.
MaxContentLen == 3

\* '{', '}', ' ', 'x'
BraceAlphabet == {123, 125, 32, 120}

\* Provider answers: well-formed payloads (short and long keys, with and
\* without alternatives and romanization), payloads of the wrong shape, a
\* payload as an array, and prose.
Cores ==
    {
      \* {"t":"x","k":"\ud800"}
      << 123, 34, 116, 34, 58, 34, 120, 34, 44, 34, 107, 34, 58,
            34, 92, 117, 100, 56, 48, 48, 34, 125 >>,
      \* {"t":"x","k":[1e999]}
      << 123, 34, 116, 34, 58, 34, 120, 34, 44, 34, 107, 34, 58,
            91, 49, 101, 57, 57, 57, 93, 125 >>,
      \* {"t":"\ud800"}
      << 123, 34, 116, 34, 58, 34, 92, 117, 100, 56, 48, 48, 34,
            125 >>,
      \* {"t":"x"}
      << 123, 34, 116, 34, 58, 34, 120, 34, 125 >>,
      \* {"t":"x|y","r":"r"}
      << 123, 34, 116, 34, 58, 34, 120, 124, 121, 34, 44, 34, 114, 34, 58,
         34, 114, 34, 125 >>,
      \* {"t":"x","a":["p","q"],"r":" "}
      << 123, 34, 116, 34, 58, 34, 120, 34, 44, 34, 97, 34, 58, 91, 34, 112,
         34, 44, 34, 113, 34, 93, 44, 34, 114, 34, 58, 34, 32, 34, 125 >>,
      \* {"translation":"x","alternatives":["p","q","r","s"],"romanized":"r"}
      << 123, 34, 116, 114, 97, 110, 115, 108, 97, 116, 105, 111, 110, 34,
         58, 34, 120, 34, 44, 34, 97, 108, 116, 101, 114, 110, 97, 116, 105,
         118, 101, 115, 34, 58, 91, 34, 112, 34, 44, 34, 113, 34, 44, 34, 114,
         34, 44, 34, 115, 34, 93, 44, 34, 114, 111, 109, 97, 110, 105, 122,
         101, 100, 34, 58, 34, 114, 34, 125 >>,
      \* {"t":"x","t":"y"}
      << 123, 34, 116, 34, 58, 34, 120, 34, 44, 34, 116, 34, 58, 34, 121,
         34, 125 >>,
      \* {"r":"y"}
      << 123, 34, 114, 34, 58, 34, 121, 34, 125 >>,
      \* {"t":1}
      << 123, 34, 116, 34, 58, 49, 125 >>,
      \* ["x",null,null]
      << 91, 34, 120, 34, 44, 110, 117, 108, 108, 44, 110, 117, 108, 108, 93
         >>,
      \* I cannot translate that.
      << 73, 32, 99, 97, 110, 110, 111, 116, 32, 116, 114, 97, 110, 115,
         108, 97, 116, 101, 32, 116, 104, 97, 116, 46 >>,
      \* {"t":"a}b","k":{"n":[1,-2.5e3,true,null]}}
      << 123, 34, 116, 34, 58, 34, 97, 125, 98, 34, 44, 34, 107, 34, 58,
         123, 34, 110, 34, 58, 91, 49, 44, 45, 50, 46, 53, 101, 51, 44, 116,
         114, 117, 101, 44, 110, 117, 108, 108, 93, 125, 125 >> }

\* Text before the payload: nothing, a markdown fence, a stray '}'.
Wrappers ==
    {
      \* (empty)
      << >>,
      \* Sure! ```json\n
      << 83, 117, 114, 101, 33, 32, 96, 96, 96, 106, 115, 111, 110, 10 >>,
      \* } 
      << 125, 32 >>,
      \* }
      << 125 >> }

\* Text after the payload: nothing, a closing fence, a stray '{' or '}'.
Trailers ==
    {
      \* (empty)
      << >>,
      \* \n```
      << 10, 96, 96, 96 >>,
      \*  {
      << 32, 123 >>,
      \*  }
      << 32, 125 >> }

Contents ==
    StringsUpTo(BraceAlphabet, MaxContentLen)
    \cup { w \o c \o t : w \in Wrappers, c \in Cores, t \in Trailers }

InitDecode ==
    /\ op = "parse_json_content"
    /\ arg \in [ content : Contents ]
    /\ pc = "call"
    /\ ret = Pending
    /\ HandlersIdle

CallDecode ==
    /\ op = "parse_json_content"
    /\ pc = "call"
    /\ ret' = parse_json_content(arg.content)
    /\ pc' = "return"
    /\ UNCHANGED << op, arg, handler_vars >>

NextDecode == CallDecode

SpecDecode == InitDecode /\ [][NextDecode]_vars

---------------------------------------------------------------------------
(* SpecEndpoint: one call of Translator::new                               *)

\* Most path segments of a configured URL.
MaxSegments == 2

\* "http", "https"
Schemes ==
    { << 104, 116, 116, 112 >>,
      << 104, 116, 116, 112, 115 >> }

\* "h", "api.x.io:8080"
Authorities ==
    { << 104 >>,
      << 97, 112, 105, 46, 120, 46, 105, 111, 58, 56, 48, 56, 48 >> }

\* "v1", "api", "chat", "completions"
SegmentNames ==
    { << 118, 49 >>,
      << 97, 112, 105 >>,
      << 99, 104, 97, 116 >>,
      << 99, 111, 109, 112, 108, 101, 116, 105, 111, 110, 115 >> }

\* The paths of up to n segments, each written "/segment".
RECURSIVE PathsUpTo(_)
PathsUpTo(n) ==
    IF n = 0 THEN { << >> }
    ELSE LET shorter == PathsUpTo(n - 1)
         IN  shorter \cup { p \o << 47 >> \o seg : p \in shorter, seg \in SegmentNames }

\* Configured URLs written scheme://authority/path: with and without a
\* trailing '/', with and without a query "?k=1"; and two texts that are
\* not absolute URLs.
PlainUrls ==
    { scheme \o << 58, 47, 47 >> \o authority \o path \o slash \o query :
        scheme \in Schemes, authority \in Authorities,
        path \in PathsUpTo(MaxSegments),
        slash \in { << >>, << 47 >> },
        query \in { << >>, << 63, 107, 61, 49 >> } }
    \cup { << >>, << 104, 47, 118, 49 >> }

\* Configured URLs written in the other ways Url::parse reads.
OtherUrls ==
    {
      \* HTTP://API.X.io:80/v1: scheme and host in capitals, the default port
      << 72, 84, 84, 80, 58, 47, 47, 65, 80, 73, 46, 88, 46, 105,
            111, 58, 56, 48, 47, 118, 49 >>,
      \* https://h:0443/v1/: a port with a leading zero that is the default
      << 104, 116, 116, 112, 115, 58, 47, 47, 104, 58, 48, 52, 52,
            51, 47, 118, 49, 47 >>,
      \* http://h:/v1: an empty port
      << 104, 116, 116, 112, 58, 47, 47, 104, 58, 47, 118, 49 >>,
      \* http://h:65536/v1: a port beyond u16
      << 104, 116, 116, 112, 58, 47, 47, 104, 58, 54, 53, 53, 51,
            54, 47, 118, 49 >>,
      \* http://h:8o/v1: a port that is no number
      << 104, 116, 116, 112, 58, 47, 47, 104, 58, 56, 111, 47,
            118, 49 >>,
      \* http:h/v1: no slash after the scheme
      << 104, 116, 116, 112, 58, 104, 47, 118, 49 >>,
      \* http:///h//v1: three slashes after the scheme, an empty segment
      << 104, 116, 116, 112, 58, 47, 47, 47, 104, 47, 47, 118,
            49 >>,
      \* http:\\h\v1: backslashes for slashes
      << 104, 116, 116, 112, 58, 92, 92, 104, 92, 118, 49 >>,
      \* http://@h/v1: an empty userinfo
      << 104, 116, 116, 112, 58, 47, 47, 64, 104, 47, 118, 49 >>,
      \* http://u:p@h/v1: a userinfo
      << 104, 116, 116, 112, 58, 47, 47, 117, 58, 112, 64, 104,
            47, 118, 49 >>,
      \* http://u:@h/v1: an empty password
      << 104, 116, 116, 112, 58, 47, 47, 117, 58, 64, 104, 47,
            118, 49 >>,
      \* http://u@/v1: a userinfo without a host
      << 104, 116, 116, 112, 58, 47, 47, 117, 64, 47, 118, 49 >>,
      \* http://0x7f.1/v1: an IPv4 host in hexadecimal
      << 104, 116, 116, 112, 58, 47, 47, 48, 120, 55, 102, 46, 49,
            47, 118, 49 >>,
      \* http://1.2.3.256/v1: an IPv4 host with a part beyond 255
      << 104, 116, 116, 112, 58, 47, 47, 49, 46, 50, 46, 51, 46,
            50, 53, 54, 47, 118, 49 >>,
      \* http://4294967296/v1: an IPv4 host beyond u32
      << 104, 116, 116, 112, 58, 47, 47, 52, 50, 57, 52, 57, 54,
            55, 50, 57, 54, 47, 118, 49 >>,
      \* http://h/v1/../v2/./api: dot segments
      << 104, 116, 116, 112, 58, 47, 47, 104, 47, 118, 49, 47, 46,
            46, 47, 118, 50, 47, 46, 47, 97, 112, 105 >>,
      \* http://h/c:/..: a drive letter before a dot segment
      << 104, 116, 116, 112, 58, 47, 47, 104, 47, 99, 58, 47, 46,
            46 >>,
      \* http://h/v1/c|/../x: a drive letter inside the path
      << 104, 116, 116, 112, 58, 47, 47, 104, 47, 118, 49, 47, 99,
            124, 47, 46, 46, 47, 120 >>,
      \* http://h/v1/%2E%2e: an encoded dot segment at the end
      << 104, 116, 116, 112, 58, 47, 47, 104, 47, 118, 49, 47, 37,
            50, 69, 37, 50, 101 >>,
      \*   http://h/v1\n/api \t: whitespace around and a newline inside
      << 32, 32, 104, 116, 116, 112, 58, 47, 47, 104, 47, 118, 49,
            10, 47, 97, 112, 105, 32, 9 >>,
      \* http://h/v1/chat/completions#f: the suffix before a fragment
      << 104, 116, 116, 112, 58, 47, 47, 104, 47, 118, 49, 47, 99,
            104, 97, 116, 47, 99, 111, 109, 112, 108, 101, 116, 105,
            111, 110, 115, 35, 102 >>,
      \* http://h/v1/chat/completions?k=1#f: the suffix before a query and a fragment
      << 104, 116, 116, 112, 58, 47, 47, 104, 47, 118, 49, 47, 99,
            104, 97, 116, 47, 99, 111, 109, 112, 108, 101, 116, 105,
            111, 110, 115, 63, 107, 61, 49, 35, 102 >>,
      \* http://h/v1#chat/completions: the suffix in the fragment
      << 104, 116, 116, 112, 58, 47, 47, 104, 47, 118, 49, 35, 99,
            104, 97, 116, 47, 99, 111, 109, 112, 108, 101, 116, 105,
            111, 110, 115 >>,
      \* http://a b/v1: a space in the host
      << 104, 116, 116, 112, 58, 47, 47, 97, 32, 98, 47, 118, 49 >>,
      \* http://[::1]/v1: an IPv6 host
      << 104, 116, 116, 112, 58, 47, 47, 91, 58, 58, 49, 93, 47,
            118, 49 >>,
      \* http://h/a b: a space in the path
      << 104, 116, 116, 112, 58, 47, 47, 104, 47, 97, 32, 98 >>,
      \* file:///v1: the file scheme
      << 102, 105, 108, 101, 58, 47, 47, 47, 118, 49 >>,
      \* foo://h: another scheme, no path
      << 102, 111, 111, 58, 47, 47, 104 >>,
      \* foo://H/v1: another scheme, its host kept as written
      << 102, 111, 111, 58, 47, 47, 72, 47, 118, 49 >>,
      \* foo:/v1: another scheme, no authority
      << 102, 111, 111, 58, 47, 118, 49 >>,
      \* localhost:8080: a host and port without a scheme: a cannot-be-a-base URL
      << 108, 111, 99, 97, 108, 104, 111, 115, 116, 58, 56, 48,
            56, 48 >>,
      \* mailto:a@b: a cannot-be-a-base URL
      << 109, 97, 105, 108, 116, 111, 58, 97, 64, 98 >>,
      \* 1http://h/v1: a digit first
      << 49, 104, 116, 116, 112, 58, 47, 47, 104, 47, 118, 49 >>,
      \* //h/v1: no scheme
      << 47, 47, 104, 47, 118, 49 >>
    }

ConfiguredUrls == PlainUrls \cup OtherUrls

InitEndpoint ==
    /\ op = "Translator::new"
    /\ arg \in [ translation_api_url : ConfiguredUrls, client_builds : BOOLEAN ]
    /\ pc = "call"
    /\ ret = Pending
    /\ HandlersIdle

CallNew ==
    /\ op = "Translator::new"
    /\ pc = "call"
    /\ ret' = new(arg.translation_api_url, arg.client_builds)
    /\ pc' = "return"
    /\ UNCHANGED << op, arg, handler_vars >>

NextEndpoint == CallNew

SpecEndpoint == InitEndpoint /\ [][NextEndpoint]_vars

---------------------------------------------------------------------------
(* SpecTranslate: one call of Translator::translate, from await to await   *)

\* A string as a JSON string literal.
JsonQuote(s) ==
    << 34 >>
    \o join([i \in 1..Len(s) |->
                 CASE s[i] = 34 -> << 92, 34 >>
                   [] s[i] = 92 -> << 92, 92 >>
                   [] s[i] = 10 -> << 92, 110 >>
                   [] OTHER -> << s[i] >>], << >>)
    \o << 34 >>

\* The chat-completion envelope around a content string:
\* {"choices":[{"message":{"content":<content>}}]}
Envelope(content) ==
    << 123, 34, 99, 104, 111, 105, 99, 101, 115, 34, 58, 91, 123, 34, 109,
    101, 115, 115, 97, 103, 101, 34, 58, 123, 34, 99, 111, 110, 116, 101,
    110, 116, 34, 58 >>
    \o JsonQuote(content)
    \o << 125, 125, 93, 125 >>

\* Bodies that are no envelope with a content string.
OtherBodies ==
    {
      \* {"choices":[{"message":{"content":"x"}}],"n":1e999}
      << 123, 34, 99, 104, 111, 105, 99, 101, 115, 34, 58, 91,
            123, 34, 109, 101, 115, 115, 97, 103, 101, 34, 58, 123,
            34, 99, 111, 110, 116, 101, 110, 116, 34, 58, 34, 120,
            34, 125, 125, 93, 44, 34, 110, 34, 58, 49, 101, 57, 57,
            57, 125 >>,
      \* {"choices":[{"message":{"content":"x"}}],"n":[1e308]}
      << 123, 34, 99, 104, 111, 105, 99, 101, 115, 34, 58, 91,
            123, 34, 109, 101, 115, 115, 97, 103, 101, 34, 58, 123,
            34, 99, 111, 110, 116, 101, 110, 116, 34, 58, 34, 120,
            34, 125, 125, 93, 44, 34, 110, 34, 58, 91, 49, 101, 51,
            48, 56, 93, 125 >>,
      \* (empty)
      << >>,
      \* oops
      << 111, 111, 112, 115 >>,
      \* {"choices":[]}
      << 123, 34, 99, 104, 111, 105, 99, 101, 115, 34, 58, 91, 93, 125 >>,
      \* {"choices":[{"message":{"content":null}}]}
      << 123, 34, 99, 104, 111, 105, 99, 101, 115, 34, 58, 91, 123, 34, 109,
         101, 115, 115, 97, 103, 101, 34, 58, 123, 34, 99, 111, 110, 116, 101,
         110, 116, 34, 58, 110, 117, 108, 108, 125, 125, 93, 125 >>,
      \* {"error":"x"}
      << 123, 34, 101, 114, 114, 111, 114, 34, 58, 34, 120, 34, 125 >>,
      \* {"choices":[{"message":{"content":"first"}}],"choices":[{"message":{"content":"{\"t\":\"last\"}"}}]}
      << 123, 34, 99, 104, 111, 105, 99, 101, 115, 34, 58, 91, 123, 34, 109,
         101, 115, 115, 97, 103, 101, 34, 58, 123, 34, 99, 111, 110, 116, 101,
         110, 116, 34, 58, 34, 102, 105, 114, 115, 116, 34, 125, 125, 93, 44,
         34, 99, 104, 111, 105, 99, 101, 115, 34, 58, 91, 123, 34, 109, 101,
         115, 115, 97, 103, 101, 34, 58, 123, 34, 99, 111, 110, 116, 101, 110,
         116, 34, 58, 34, 123, 92, 34, 116, 92, 34, 58, 92, 34, 108, 97, 115,
         116, 92, 34, 125, 34, 125, 125, 93, 125 >> }

TranslateContents ==
    { w \o c \o t : w \in { << >>, << 125, 32 >> }, c \in Cores,
                    t \in { << >>, << 10, 96, 96, 96 >> } }

ResponseBodies == { Envelope(c) : c \in TranslateContents } \cup OtherBodies

\* Statuses around the 2xx range.
Statuses == {199, 200, 204, 299, 300, 404, 500}

SendFailure ==
    [sent |-> FALSE, status |-> 0, body_readable |-> FALSE, body |-> << >>,
     elapsed_ms |-> 15000]

Responses ==
    [ sent : {TRUE}, status : Statuses, body_readable : BOOLEAN,
      body : ResponseBodies, elapsed_ms : {120} ]
    \cup { SendFailure }

\* "hello" En -> Zh
Requests ==
    { [text |-> << 104, 101, 108, 108, 111 >>, source_lang |-> "En", target_lang |-> "Zh"] }

InitTranslate ==
    /\ op = "Translator::translate"
    /\ arg \in [ request : Requests, response : Responses ]
    /\ pc = "call"
    /\ ret = Pending
    /\ HandlersIdle

\* Lines 36-57: the prompt and the request body are built and the request
\* is sent; the call suspends at send().await.
CallTranslate ==
    /\ op = "Translator::translate"
    /\ pc = "call"
    /\ pc' = "awaiting_send"
    /\ UNCHANGED << op, arg, ret, handler_vars >>

\* Lines 57-65: send().await resolves; its error is returned, otherwise the
\* call suspends at text().await or json().await.
SendReturns ==
    /\ op = "Translator::translate"
    /\ pc = "awaiting_send"
    /\ pc' = AfterSend(arg.response)
    /\ ret' = IF AfterSend(arg.response) = "return"
              THEN TranslateErr("Send", 0, << >>) ELSE ret
    /\ UNCHANGED << op, arg, handler_vars >>

\* Lines 61-62: text().await resolves and the call fails with the status
\* and the text.
TextReturns ==
    /\ op = "Translator::translate"
    /\ pc = "awaiting_text"
    /\ ret' = ProviderFailed(arg.response)
    /\ pc' = "return"
    /\ UNCHANGED << op, arg, handler_vars >>

\* Lines 65-78: json().await resolves; the content is decoded and the
\* result is returned.
JsonReturns ==
    /\ op = "Translator::translate"
    /\ pc = "awaiting_json"
    /\ ret' = ResultFromBody(arg.response)
    /\ pc' = "return"
    /\ UNCHANGED << op, arg, handler_vars >>

NextTranslate == CallTranslate \/ SendReturns \/ TextReturns \/ JsonReturns

SpecTranslate == InitTranslate /\ [][NextTranslate]_vars

---------------------------------------------------------------------------
(* SpecRender: one call of build_translation_articles                      *)

\* How far below and above DescriptionMax the long rendered texts reach.
DescSlack == 2

\* "x", "a|b", " a | b ", "a  b", "a\tb|c", "wait…"
ShortTexts ==
    { << 120 >>,
      << 97, 124, 98 >>,
      << 32, 97, 32, 124, 32, 98, 32 >>,
      << 97, 32, 32, 98 >>,
      << 97, 9, 98, 124, 99 >>,
      << 119, 97, 105, 116, 8230 >> }

\* One segment of n 'a'; "ab|" and a segment of n 'c'; n 'a', a space, "bcd".
LongTexts ==
    UNION { { Repeat(97, n),
              << 97, 98, 124 >> \o Repeat(99, n),
              Repeat(97, n) \o << 32, 98, 99, 100 >> } :
            n \in (DescriptionMax - DescSlack)..(DescriptionMax + DescSlack) }

RenderTexts == ShortTexts \cup LongTexts

\* No romanization, "r1|r2", 81 'r'
Romanizations ==
    { None, Some(<< 114, 49, 124, 114, 50 >>), Some(Repeat(114, DescriptionMax + 1)) }

\* No alternates, one of two segments, four, one of a long segment
AlternateLists ==
    { << >>,
      << << 112, 124, 113 >> >>,
      << << 112 >>, << 113 >>, << 114 >>, << 115 >> >>,
      << << 112, 124 >> \o Repeat(113, DescriptionMax) >> }

RenderArgs ==
    [ parsed : { [source_lang |-> "En", target_lang |-> "Zh"],
                 [source_lang |-> "Zh", target_lang |-> "En"] },
      translation : [ primary_text : RenderTexts,
                      alternate_texts : AlternateLists,
                      romanized_text : Romanizations ] ]

InitRender ==
    /\ op = "build_translation_articles"
    /\ arg \in RenderArgs
    /\ pc = "call"
    /\ ret = Pending
    /\ HandlersIdle

CallRender ==
    /\ op = "build_translation_articles"
    /\ pc = "call"
    /\ ret' = [kind |-> "Articles",
               articles |-> build_translation_articles(arg.parsed, arg.translation)]
    /\ pc' = "return"
    /\ UNCHANGED << op, arg, handler_vars >>

NextRender == CallRender

SpecRender == InitRender /\ [][NextRender]_vars

---------------------------------------------------------------------------
(* Spec: the inline-query handler, main.rs handle_inline_query            *)
(*                                                                         *)
(* Every inbound inline query runs its own handler task.  A task runs from *)
(* one await to the next in one step: from the arrival of the query to the *)
(* provider request (or to the help answer), from the provider's response  *)
(* to the read of its body, from the body to the answer, and from the      *)
(* answer call to its return.                                              *)

\* The three digits of an HTTP status.
Decimal3(n) == << 48 + (n \div 100), 48 + ((n \div 10) % 10), 48 + (n % 10) >>

\* StatusCode::canonical_reason: the reason phrase of a registered status,
\* "<unknown status code>" (the text Display prints) for any other.
CanonicalReason(status) ==
    CASE status = 100 ->  \* Continue
             << 67, 111, 110, 116, 105, 110, 117, 101 >>
      [] status = 101 ->  \* Switching Protocols
             << 83, 119, 105, 116, 99, 104, 105, 110, 103, 32, 80, 114,
                111, 116, 111, 99, 111, 108, 115 >>
      [] status = 102 ->  \* Processing
             << 80, 114, 111, 99, 101, 115, 115, 105, 110, 103 >>
      [] status = 103 ->  \* Early Hints
             << 69, 97, 114, 108, 121, 32, 72, 105, 110, 116, 115 >>
      [] status = 200 ->  \* OK
             << 79, 75 >>
      [] status = 201 ->  \* Created
             << 67, 114, 101, 97, 116, 101, 100 >>
      [] status = 202 ->  \* Accepted
             << 65, 99, 99, 101, 112, 116, 101, 100 >>
      [] status = 203 ->  \* Non Authoritative Information
             << 78, 111, 110, 32, 65, 117, 116, 104, 111, 114, 105, 116,
                97, 116, 105, 118, 101, 32, 73, 110, 102, 111, 114, 109,
                97, 116, 105, 111, 110 >>
      [] status = 204 ->  \* No Content
             << 78, 111, 32, 67, 111, 110, 116, 101, 110, 116 >>
      [] status = 205 ->  \* Reset Content
             << 82, 101, 115, 101, 116, 32, 67, 111, 110, 116, 101, 110,
                116 >>
      [] status = 206 ->  \* Partial Content
             << 80, 97, 114, 116, 105, 97, 108, 32, 67, 111, 110, 116, 101,
                110, 116 >>
      [] status = 207 ->  \* Multi-Status
             << 77, 117, 108, 116, 105, 45, 83, 116, 97, 116, 117, 115 >>
      [] status = 208 ->  \* Already Reported
             << 65, 108, 114, 101, 97, 100, 121, 32, 82, 101, 112, 111,
                114, 116, 101, 100 >>
      [] status = 226 ->  \* IM Used
             << 73, 77, 32, 85, 115, 101, 100 >>
      [] status = 300 ->  \* Multiple Choices
             << 77, 117, 108, 116, 105, 112, 108, 101, 32, 67, 104, 111,
                105, 99, 101, 115 >>
      [] status = 301 ->  \* Moved Permanently
             << 77, 111, 118, 101, 100, 32, 80, 101, 114, 109, 97, 110,
                101, 110, 116, 108, 121 >>
      [] status = 302 ->  \* Found
             << 70, 111, 117, 110, 100 >>
      [] status = 303 ->  \* See Other
             << 83, 101, 101, 32, 79, 116, 104, 101, 114 >>
      [] status = 304 ->  \* Not Modified
             << 78, 111, 116, 32, 77, 111, 100, 105, 102, 105, 101, 100 >>
      [] status = 305 ->  \* Use Proxy
             << 85, 115, 101, 32, 80, 114, 111, 120, 121 >>
      [] status = 307 ->  \* Temporary Redirect
             << 84, 101, 109, 112, 111, 114, 97, 114, 121, 32, 82, 101,
                100, 105, 114, 101, 99, 116 >>
      [] status = 308 ->  \* Permanent Redirect
             << 80, 101, 114, 109, 97, 110, 101, 110, 116, 32, 82, 101,
                100, 105, 114, 101, 99, 116 >>
      [] status = 400 ->  \* Bad Request
             << 66, 97, 100, 32, 82, 101, 113, 117, 101, 115, 116 >>
      [] status = 401 ->  \* Unauthorized
             << 85, 110, 97, 117, 116, 104, 111, 114, 105, 122, 101, 100 >>
      [] status = 402 ->  \* Payment Required
             << 80, 97, 121, 109, 101, 110, 116, 32, 82, 101, 113, 117,
                105, 114, 101, 100 >>
      [] status = 403 ->  \* Forbidden
             << 70, 111, 114, 98, 105, 100, 100, 101, 110 >>
      [] status = 404 ->  \* Not Found
             << 78, 111, 116, 32, 70, 111, 117, 110, 100 >>
      [] status = 405 ->  \* Method Not Allowed
             << 77, 101, 116, 104, 111, 100, 32, 78, 111, 116, 32, 65, 108,
                108, 111, 119, 101, 100 >>
      [] status = 406 ->  \* Not Acceptable
             << 78, 111, 116, 32, 65, 99, 99, 101, 112, 116, 97, 98, 108,
                101 >>
      [] status = 407 ->  \* Proxy Authentication Required
             << 80, 114, 111, 120, 121, 32, 65, 117, 116, 104, 101, 110,
                116, 105, 99, 97, 116, 105, 111, 110, 32, 82, 101, 113,
                117, 105, 114, 101, 100 >>
      [] status = 408 ->  \* Request Timeout
             << 82, 101, 113, 117, 101, 115, 116, 32, 84, 105, 109, 101,
                111, 117, 116 >>
      [] status = 409 ->  \* Conflict
             << 67, 111, 110, 102, 108, 105, 99, 116 >>
      [] status = 410 ->  \* Gone
             << 71, 111, 110, 101 >>
      [] status = 411 ->  \* Length Required
             << 76, 101, 110, 103, 116, 104, 32, 82, 101, 113, 117, 105,
                114, 101, 100 >>
      [] status = 412 ->  \* Precondition Failed
             << 80, 114, 101, 99, 111, 110, 100, 105, 116, 105, 111, 110,
                32, 70, 97, 105, 108, 101, 100 >>
      [] status = 413 ->  \* Payload Too Large
             << 80, 97, 121, 108, 111, 97, 100, 32, 84, 111, 111, 32, 76,
                97, 114, 103, 101 >>
      [] status = 414 ->  \* URI Too Long
             << 85, 82, 73, 32, 84, 111, 111, 32, 76, 111, 110, 103 >>
      [] status = 415 ->  \* Unsupported Media Type
             << 85, 110, 115, 117, 112, 112, 111, 114, 116, 101, 100, 32,
                77, 101, 100, 105, 97, 32, 84, 121, 112, 101 >>
      [] status = 416 ->  \* Range Not Satisfiable
             << 82, 97, 110, 103, 101, 32, 78, 111, 116, 32, 83, 97, 116,
                105, 115, 102, 105, 97, 98, 108, 101 >>
      [] status = 417 ->  \* Expectation Failed
             << 69, 120, 112, 101, 99, 116, 97, 116, 105, 111, 110, 32, 70,
                97, 105, 108, 101, 100 >>
      [] status = 418 ->  \* I'm a teapot
             << 73, 39, 109, 32, 97, 32, 116, 101, 97, 112, 111, 116 >>
      [] status = 421 ->  \* Misdirected Request
             << 77, 105, 115, 100, 105, 114, 101, 99, 116, 101, 100, 32,
                82, 101, 113, 117, 101, 115, 116 >>
      [] status = 422 ->  \* Unprocessable Entity
             << 85, 110, 112, 114, 111, 99, 101, 115, 115, 97, 98, 108,
                101, 32, 69, 110, 116, 105, 116, 121 >>
      [] status = 423 ->  \* Locked
             << 76, 111, 99, 107, 101, 100 >>
      [] status = 424 ->  \* Failed Dependency
             << 70, 97, 105, 108, 101, 100, 32, 68, 101, 112, 101, 110,
                100, 101, 110, 99, 121 >>
      [] status = 425 ->  \* Too Early
             << 84, 111, 111, 32, 69, 97, 114, 108, 121 >>
      [] status = 426 ->  \* Upgrade Required
             << 85, 112, 103, 114, 97, 100, 101, 32, 82, 101, 113, 117,
                105, 114, 101, 100 >>
      [] status = 428 ->  \* Precondition Required
             << 80, 114, 101, 99, 111, 110, 100, 105, 116, 105, 111, 110,
                32, 82, 101, 113, 117, 105, 114, 101, 100 >>
      [] status = 429 ->  \* Too Many Requests
             << 84, 111, 111, 32, 77, 97, 110, 121, 32, 82, 101, 113, 117,
                101, 115, 116, 115 >>
      [] status = 431 ->  \* Request Header Fields Too Large
             << 82, 101, 113, 117, 101, 115, 116, 32, 72, 101, 97, 100,
                101, 114, 32, 70, 105, 101, 108, 100, 115, 32, 84, 111,
                111, 32, 76, 97, 114, 103, 101 >>
      [] status = 451 ->  \* Unavailable For Legal Reasons
             << 85, 110, 97, 118, 97, 105, 108, 97, 98, 108, 101, 32, 70,
                111, 114, 32, 76, 101, 103, 97, 108, 32, 82, 101, 97, 115,
                111, 110, 115 >>
      [] status = 500 ->  \* Internal Server Error
             << 73, 110, 116, 101, 114, 110, 97, 108, 32, 83, 101, 114,
                118, 101, 114, 32, 69, 114, 114, 111, 114 >>
      [] status = 501 ->  \* Not Implemented
             << 78, 111, 116, 32, 73, 109, 112, 108, 101, 109, 101, 110,
                116, 101, 100 >>
      [] status = 502 ->  \* Bad Gateway
             << 66, 97, 100, 32, 71, 97, 116, 101, 119, 97, 121 >>
      [] status = 503 ->  \* Service Unavailable
             << 83, 101, 114, 118, 105, 99, 101, 32, 85, 110, 97, 118, 97,
                105, 108, 97, 98, 108, 101 >>
      [] status = 504 ->  \* Gateway Timeout
             << 71, 97, 116, 101, 119, 97, 121, 32, 84, 105, 109, 101, 111,
                117, 116 >>
      [] status = 505 ->  \* HTTP Version Not Supported
             << 72, 84, 84, 80, 32, 86, 101, 114, 115, 105, 111, 110, 32,
                78, 111, 116, 32, 83, 117, 112, 112, 111, 114, 116, 101,
                100 >>
      [] status = 506 ->  \* Variant Also Negotiates
             << 86, 97, 114, 105, 97, 110, 116, 32, 65, 108, 115, 111, 32,
                78, 101, 103, 111, 116, 105, 97, 116, 101, 115 >>
      [] status = 507 ->  \* Insufficient Storage
             << 73, 110, 115, 117, 102, 102, 105, 99, 105, 101, 110, 116,
                32, 83, 116, 111, 114, 97, 103, 101 >>
      [] status = 508 ->  \* Loop Detected
             << 76, 111, 111, 112, 32, 68, 101, 116, 101, 99, 116, 101,
                100 >>
      [] status = 510 ->  \* Not Extended
             << 78, 111, 116, 32, 69, 120, 116, 101, 110, 100, 101, 100 >>
      [] status = 511 ->  \* Network Authentication Required
             << 78, 101, 116, 119, 111, 114, 107, 32, 65, 117, 116, 104,
                101, 110, 116, 105, 99, 97, 116, 105, 111, 110, 32, 82,
                101, 113, 117, 105, 114, 101, 100 >>
      [] OTHER ->  \* <unknown status code>
             << 60, 117, 110, 107, 110, 111, 119, 110, 32, 115, 116, 97,
                116, 117, 115, 32, 99, 111, 100, 101, 62 >>

\* e.to_string() of the error translate returned.  The texts of reqwest's
\* own errors (send, body) stand for whatever reqwest reports.
ErrorMessage(err) ==
    CASE err.error = "ProviderFailed" ->
             << 84, 114, 97, 110, 115, 108, 97, 116, 105, 111, 110, 32, 112, 114,
             111, 118, 105, 100, 101, 114, 32, 102, 97, 105, 108, 101, 100, 32, 40
             >>
             \o Decimal3(err.status) \o << 32 >> \o CanonicalReason(err.status)
             \o << 41, 58, 32 >> \o err.text
      [] err.error = "MissingContent" ->
             << 80, 114, 111, 118, 105, 100, 101, 114, 32, 114, 101, 115, 112, 111,
             110, 115, 101, 32, 109, 105, 115, 115, 105, 110, 103, 32, 99, 111,
             110, 116, 101, 110, 116 >>
      [] err.error = "Send" ->
             << 101, 114, 114, 111, 114, 32, 115, 101, 110, 100, 105, 110, 103, 32,
             114, 101, 113, 117, 101, 115, 116 >>
      [] OTHER ->
             << 101, 114, 114, 111, 114, 32, 100, 101, 99, 111, 100, 105, 110, 103,
             32, 114, 101, 115, 112, 111, 110, 115, 101, 32, 98, 111, 100, 121 >>

\* Inline queries that arrive: blank (no query), and "en>zh: a|b".
InlineQueries ==
    { [raw |-> << 32, 32 >>, detected |-> "None"],
      [raw |-> << 101, 110, 62, 122, 104, 58, 32, 97, 124, 98 >>,
       detected |-> "Eng"] }

\* What the provider may answer: no response; a 500 with a text body; 200
\* with payloads with and without alternatives and romanization, with
\* prose, without content, and with content whose braces are reversed.
ProviderResponses ==
    { SendFailure,
      [sent |-> TRUE, status |-> 500, body_readable |-> TRUE,
       body |-> << 111, 111, 112, 115 >>, elapsed_ms |-> 120] }
    \cup
    [ sent : {TRUE}, status : {200}, body_readable : {TRUE}, elapsed_ms : {120},
      body : { Envelope(<< 123, 34, 116, 34, 58, 34, 120, 124, 121, 34, 44, 34, 114, 34, 58,
                        34, 114, 34, 125 >>),
               Envelope(<< 123, 34, 116, 34, 58, 34, 120, 34, 44, 34, 97, 34, 58, 91, 34, 112,
                        34, 44, 34, 113, 34, 93, 44, 34, 114, 34, 58, 34, 32, 34, 125 >>),
               Envelope(<< 123, 34, 116, 114, 97, 110, 115, 108, 97, 116, 105, 111, 110, 34,
                        58, 34, 120, 34, 44, 34, 97, 108, 116, 101, 114, 110, 97, 116, 105,
                        118, 101, 115, 34, 58, 91, 34, 112, 34, 44, 34, 113, 34, 44, 34, 114,
                        34, 44, 34, 115, 34, 93, 44, 34, 114, 111, 109, 97, 110, 105, 122,
                        101, 100, 34, 58, 34, 114, 34, 125 >>),
               Envelope(<< 73, 32, 99, 97, 110, 110, 111, 116, 32, 116, 114, 97, 110, 115,
                        108, 97, 116, 101, 32, 116, 104, 97, 116, 46 >>),
               Envelope(<< 125, 32, 123 >>),
               << 123, 34, 99, 104, 111, 105, 99, 101, 115, 34, 58, 91, 93, 125 >> } ]

RequestOf(parsed) ==
    [text |-> parsed.text, source_lang |-> parsed.source_lang,
     target_lang |-> parsed.target_lang]

Init ==
    /\ op = "handle_inline_query"
    /\ arg = [handler |-> "main"]
    /\ pc = "dispatch"
    /\ ret = Pending
    /\ HandlersIdle

\* Lines 57-71 and 96-103: the query arrives and is interpreted; a
\* recognized query is sent to the provider, any other is answered with the
\* help entry.
Receive(e) ==
    \E q \in InlineQueries :
        LET parsed == parse_inline_query(q.raw, config.default_source_lang,
                                         config.default_target_lang, q.detected)
            h == [handlers[e] EXCEPT !.query = q.raw, !.detected = q.detected,
                                     !.parsed = parsed]
        IN  /\ handlers[e].pc = "idle"
            /\ handlers' = [handlers EXCEPT ![e] =
                   IF parsed.kind = "Some"
                   THEN [h EXCEPT !.pc = "awaiting_provider",
                                  !.requests = Append(@, prompt(RequestOf(parsed)))]
                   ELSE [h EXCEPT !.pc = "answering",
                                  !.answers = Append(@,
                                      << build_help_article(config.default_source_lang,
                                                            config.default_target_lang) >>)]]
            /\ UNCHANGED << call_vars, config >>

\* The handler after translate has returned `outcome` (lines 73-94): its
\* result is answered as translation articles, its error as one error
\* article; the handler suspends at answer_inline_query(..).await.  A
\* panic inside translate ends the task without an answer.
Answered(h, outcome) ==
    CASE outcome.kind = "Ok" ->
             [h EXCEPT !.outcome = outcome, !.pc = "answering",
                       !.answers = Append(@,
                           build_translation_articles(h.parsed, outcome))]
      [] outcome.kind = "Err" ->
             [h EXCEPT !.outcome = outcome, !.pc = "answering",
                       !.answers = Append(@,
                           << build_error_article(ErrorMessage(outcome)) >>)]
      [] OTHER -> [h EXCEPT !.outcome = outcome, !.pc = "panicked"]

\* translator.rs lines 57-65 inside the handler: send().await resolves
\* with the provider's behaviour r; translate returns the error of send
\* to the handler, or suspends at text().await or json().await.
ProviderResponds(e) ==
    \E r \in ProviderResponses :
        /\ handlers[e].pc = "awaiting_provider"
        /\ handlers' = [handlers EXCEPT ![e] =
               IF AfterSend(r) = "return"
               THEN Answered([handlers[e] EXCEPT !.response = r],
                             TranslateErr("Send", 0, << >>))
               ELSE [handlers[e] EXCEPT !.response = r, !.pc = AfterSend(r)]]
        /\ UNCHANGED << call_vars, config >>

\* translator.rs lines 61-62 inside the handler: text().await resolves and
\* translate returns the provider failure.
TextRead(e) ==
    /\ handlers[e].pc = "awaiting_text"
    /\ handlers' = [handlers EXCEPT ![e] =
           Answered(handlers[e], ProviderFailed(handlers[e].response))]
    /\ UNCHANGED << call_vars, config >>

\* translator.rs lines 65-78 inside the handler: json().await resolves and
\* translate returns the decoded result.
JsonRead(e) ==
    /\ handlers[e].pc = "awaiting_json"
    /\ handlers' = [handlers EXCEPT ![e] =
           Answered(handlers[e], ResultFromBody(handlers[e].response))]
    /\ UNCHANGED << call_vars, config >>

\* answer_inline_query(..).await returns (its error is only logged) and the
\* handler returns Ok(()).
AnswerReturns(e) ==
    /\ handlers[e].pc = "answering"
    /\ handlers' = [handlers EXCEPT ![e].pc = "done"]
    /\ UNCHANGED << call_vars, config >>

Next ==
    \E e \in Events :
        \/ Receive(e)
        \/ ProviderResponds(e)
        \/ TextRead(e)
        \/ JsonRead(e)
        \/ AnswerReturns(e)

Spec == Init /\ [][Next]_vars

---------------------------------------------------------------------------
(* Properties of the query interpreter                                     *)

Returned(f) == op = f /\ pc = "return"

\* The trimmed input of the parse call, its prefix match and its candidate
\* text (the trimmed remainder after the prefix, or the whole trimmed input).
ParseTrimmed == trim(arg.raw_query)

ParseMatch == direction_pattern(ParseTrimmed)

ParseRemainder == Suffix(ParseTrimmed, ParseMatch.rest)

ParseCandidate ==
    IF ParseMatch.matched THEN trim(ParseRemainder) ELSE ParseTrimmed

\* The first MAX_TEXT_LENGTH characters of s, one character per element.
FirstChars(s) ==
    [i \in 1..(IF Len(s) < MAX_TEXT_LENGTH THEN Len(s) ELSE MAX_TEXT_LENGTH) |-> s[i]]

\* C1 (as stated): when the trimmed input starts with a direction prefix, the
\* returned query carries the prefix's direction and its text is the
\* normalization of the remainder after the matched prefix.
C1_PrefixTextIsNormalizedRemainder ==
    (Returned("parse_inline_query") /\ ParseMatch.matched /\ ret.kind = "Some")
        => /\ ret.source_lang = ParseMatch.src
           /\ ret.target_lang = ParseMatch.tgt
           /\ ret.text = normalize_segments(ParseRemainder)

\* C1 (amended): when the trimmed input starts with a direction prefix, a
\* query is returned whenever the first MAX_TEXT_LENGTH characters of the
\* trimmed remainder normalize to a non-empty text; it carries the prefix's
\* direction whatever the defaults and the detector say, and its text is the
\* normalization of those first MAX_TEXT_LENGTH characters.
C1_PrefixDirectionAndText ==
    (Returned("parse_inline_query") /\ ParseMatch.matched)
        => LET expected == normalize_segments(FirstChars(trim(ParseRemainder)))
           IN  IF Len(expected) = 0
               THEN ret.kind = "None"
               ELSE /\ ret.kind = "Some"
                    /\ ret.source_lang = ParseMatch.src
                    /\ ret.target_lang = ParseMatch.tgt
                    /\ ret.text = expected

\* C1 witness: a mixed-case "ZH -> En :" prefix, defaults and detector all
\* pointing the other way, and a two-segment text returned without the prefix.
C1_Witness ==
    /\ Returned("parse_inline_query")
    /\ arg.raw_query = << 90, 72, 32, 45, 62, 32, 69, 110, 32, 58, 97, 124, 49 >>
    /\ arg.default_source = "En" /\ arg.default_target = "Zh"
    /\ arg.detected = "Eng"
    /\ ret = SomeQuery(<< 97, 124, 49 >>, "Zh", "En")

\* C3: without a prefix the direction of a returned query follows the
\* ordered policy CJK character, detector (English, Mandarin), Latin letter,
\* caller defaults.
C3_AutoDetectionOrder ==
    (Returned("parse_inline_query") /\ ~ParseMatch.matched /\ ret.kind = "Some")
        => LET t == ParseTrimmed
               cjk == \E i \in 1..Len(t) : IsCJK(t[i])
               latin == \E i \in 1..Len(t) : IsLatin(t[i])
               dir == << ret.source_lang, ret.target_lang >>
           IN  /\ cjk => dir = << "Zh", "En" >>
               /\ (~cjk /\ arg.detected = "Eng") => dir = << "En", "Zh" >>
               /\ (~cjk /\ arg.detected = "Cmn") => dir = << "Zh", "En" >>
               /\ (~cjk /\ arg.detected \notin {"Eng", "Cmn"} /\ latin)
                      => dir = << "En", "Zh" >>
               /\ (~cjk /\ arg.detected \notin {"Eng", "Cmn"} /\ ~latin)
                      => dir = << arg.default_source, arg.default_target >>

\* C3 witness: a text with a Latin letter and a CJK character, the detector
\* answering English, the defaults En -> Zh: the CJK character wins.
C3_Witness ==
    /\ Returned("parse_inline_query")
    /\ arg.raw_query = << 97, 20013 >>
    /\ arg.detected = "Eng"
    /\ arg.default_source = "En" /\ arg.default_target = "Zh"
    /\ ret.kind = "Some"
    /\ ret.source_lang = "Zh" /\ ret.target_lang = "En"

\* C6: the text of a returned query is the normalization of the first
\* MAX_TEXT_LENGTH characters of the candidate text: it has at most
\* MAX_TEXT_LENGTH characters, and none that occurs only beyond them.
C6_TruncatedBeforeNormalization ==
    (Returned("parse_inline_query") /\ ret.kind = "Some")
        => LET kept == FirstChars(ParseCandidate)
           IN  /\ ret.text = normalize_segments(kept)
               /\ Len(ret.text) <= MAX_TEXT_LENGTH
               /\ \A i \in 1..Len(ret.text) :
                      \E j \in 1..Len(kept) : kept[j] = ret.text[i]

\* C6 witness: a candidate of more than MAX_TEXT_LENGTH three-byte
\* characters followed by "|z" is cut to exactly MAX_TEXT_LENGTH characters.
C6_Witness ==
    /\ Returned("parse_inline_query")
    /\ Len(ParseCandidate) > MAX_TEXT_LENGTH + 1
    /\ ParseCandidate[1] = 20013
    /\ ParseCandidate[Len(ParseCandidate)] = 122
    /\ ret.kind = "Some"
    /\ Len(ret.text) = MAX_TEXT_LENGTH
    /\ \A i \in 1..Len(ret.text) : ret.text[i] = 20013

\* A text of non-empty segments, none starting or ending with whitespace,
\* joined by single delimiters.
WellFormedSegments(t) ==
    /\ Len(t) > 0
    /\ ~IsWhitespace(t[1]) /\ t[1] # SEGMENT_DELIMITER
    /\ ~IsWhitespace(t[Len(t)]) /\ t[Len(t)] # SEGMENT_DELIMITER
    /\ \A i \in 2..(Len(t) - 1) :
           t[i] = SEGMENT_DELIMITER
               => /\ ~IsWhitespace(t[i - 1]) /\ t[i - 1] # SEGMENT_DELIMITER
                  /\ ~IsWhitespace(t[i + 1]) /\ t[i + 1] # SEGMENT_DELIMITER

OnlyDelimitersAndWhitespace(s) ==
    \A i \in 1..Len(s) : s[i] = SEGMENT_DELIMITER \/ IsWhitespace(s[i])

\* C7: no query is returned exactly when the trimmed input is empty or the
\* truncated candidate normalizes to the empty text; an input of delimiters
\* and whitespace only returns no query; a returned text is well formed.
C7_NoQueryExactlyWhenEmpty ==
    Returned("parse_inline_query")
        => /\ ret.kind = "None"
               <=> \/ Len(ParseTrimmed) = 0
                   \/ Len(normalize_segments(FirstChars(ParseCandidate))) = 0
           /\ OnlyDelimitersAndWhitespace(arg.raw_query) => ret.kind = "None"
           /\ ret.kind = "Some" => WellFormedSegments(ret.text)

\* C7 witness: the input " | " (delimiter and whitespace only, not empty
\* after trimming) returns no query.
C7_Witness ==
    /\ Returned("parse_inline_query")
    /\ arg.raw_query = << 32, 124, 32 >>
    /\ ret.kind = "None"

\* C10: normalizing a normalized text changes nothing.
C10_NormalizeIdempotent ==
    Returned("normalize_segments") => ret.twice = ret.once

\* C10 witness: a text that normalization changes into two segments, and
\* that a second normalization has left alone.
C10_Witness ==
    /\ Returned("normalize_segments")
    /\ arg.s = << 32, 97, 124, 97 >>
    /\ ret.once = << 97, 124, 97 >>
    /\ ret.twice = << 97, 124, 97 >>

---------------------------------------------------------------------------
(* Properties of the translation client                                    *)

\* The candidate JSON of the lenient decode as the specification words it:
\* from the first '{' to the last '}' inclusive, the whole content when
\* there is no '{' (or no '}').
DecodeCandidate(content) ==
    IF find(content, 123) = 0 \/ rfind(content, 125) = 0 THEN content
    ELSE SubSeq(content, find(content, 123), rfind(content, 125))

\* C2: the lenient decode never fails, whatever the arrangement of braces;
\* when the candidate JSON is no ProviderPayload the result is the whole
\* content trimmed, without alternatives or romanization.
C2_DecodeNeverFails ==
    Returned("parse_json_content")
        => /\ ret.kind = "Ok"
           /\ ~from_str_payload(DecodeCandidate(arg.content)).ok
                  => ret = OkPayload(trim(arg.content), None, None)

\* C4: a response with a status outside 2xx makes translate fail with the
\* status and the body text (empty when unreadable); no result is returned.
C4_NonSuccessStatusFails ==
    (/\ Returned("Translator::translate")
     /\ arg.response.sent
     /\ (arg.response.status < 200 \/ arg.response.status > 299))
        => /\ ret.kind = "Err"
           /\ ret.error = "ProviderFailed"
           /\ ret.status = arg.response.status
           /\ ret.text = IF arg.response.body_readable THEN arg.response.body
                         ELSE << >>

\* C4 witness: a 404 whose body is a well-formed envelope with a payload
\* (it would decode to a translation) ends in the error carrying 404.
C4_Witness ==
    /\ Returned("Translator::translate")
    /\ arg.response.sent
    /\ arg.response.status = 404
    /\ arg.response.body_readable
    /\ arg.response.body = Envelope(<< 123, 34, 116, 34, 58, 34, 120, 34, 125 >>)
    /\ ret.kind = "Err"
    /\ ret.status = 404

\* The path with `chat/completions` appended as a further segment.
WithChatCompletions(path) ==
    (IF Len(path) > 0 /\ path[Len(path)] = 47
     THEN SubSeq(path, 1, Len(path) - 1) ELSE path)
    \o << 47 >> \o ChatCompletions

\* C5: the endpoint is the configured URL when its path ends with
\* /chat/completions, and otherwise the configured base with every path
\* segment kept and chat/completions appended, with or without a trailing
\* '/' on the base.
C5_EndpointAppendsToBase ==
    (Returned("Translator::new") /\ ret.kind = "Ok")
        => LET base == url_parse(arg.translation_api_url)
           IN  IF ends_with(base.path, << 47 >> \o ChatCompletions)
               THEN ret = base
               ELSE /\ ret.kind = "Ok"
                    /\ ret.scheme = base.scheme
                    /\ ret.authority = base.authority
                    /\ ret.path = WithChatCompletions(base.path)

---------------------------------------------------------------------------
(* Properties of the rendering helpers                                     *)

\* The text each returned article renders under its header, in the order
\* of the articles: the primary text, the romanization when there is one,
\* the first alternate when there is any.
RenderedTexts ==
    << format_segments_for_display(arg.translation.primary_text) >>
    \o (IF arg.translation.romanized_text.some
        THEN << format_segments_for_display(arg.translation.romanized_text.v) >>
        ELSE << >>)
    \o (IF Len(arg.translation.alternate_texts) > 0
        THEN << format_segments_for_display(arg.translation.alternate_texts[1]) >>
        ELSE << >>)

\* The text up to its first line break.
FirstLine(s) ==
    IF \A i \in 1..Len(s) : s[i] # 10 THEN s
    ELSE SubSeq(s, 1, (CHOOSE i \in 1..Len(s) :
                           s[i] = 10 /\ \A k \in 1..(i - 1) : s[k] # 10) - 1)

\* `desc` is `text` made one line (whitespace to spaces, trimmed) and cut to
\* DescriptionMax characters, the last one an ellipsis, when longer.
IsShortFormOf(desc, text) ==
    LET line == trim(SingleLine(text))
    IN  /\ Len(desc) <= DescriptionMax
        /\ Len(line) <= DescriptionMax => desc = line
        /\ Len(line) > DescriptionMax
               => /\ Len(desc) = DescriptionMax
                  /\ desc[DescriptionMax] = 8230
                  /\ \A i \in 1..(DescriptionMax - 1) : desc[i] = line[i]

\* C9 (as stated): every description is the first line (the first rendered
\* segment) of the article's text, made one line and cut to 80 characters
\* with an ellipsis, and ends with the ellipsis exactly when it was cut.
C9_DescriptionIsFirstLine ==
    Returned("build_translation_articles")
        => /\ Len(ret.articles) = Len(RenderedTexts)
           /\ \A i \in 1..Len(ret.articles) :
                  LET desc == ret.articles[i].description
                      first == FirstLine(RenderedTexts[i])
                  IN  /\ IsShortFormOf(desc, first)
                      /\ (Len(desc) > 0 /\ desc[Len(desc)] = 8230)
                             <=> Len(trim(SingleLine(first))) > DescriptionMax

\* C9 (amended): every description is the whole rendered text of the
\* article (all segments of the primary text or of the romanization, or all
\* segments of the first alternate), every whitespace character replaced by
\* a space, trimmed, and cut to its first 79 characters followed by an
\* ellipsis when longer than 80 characters: never more than 80 characters.
C9_DescriptionIsWholeText ==
    Returned("build_translation_articles")
        => /\ Len(ret.articles) = Len(RenderedTexts)
           /\ \A i \in 1..Len(ret.articles) :
                  IsShortFormOf(ret.articles[i].description, RenderedTexts[i])

\* C9 witness: the primary text "ab|" followed by 80 'c' renders as two
\* lines; its description is "ab c..." cut to 79 characters and an ellipsis.
C9_Witness ==
    /\ Returned("build_translation_articles")
    /\ arg.translation.primary_text = << 97, 98, 124 >> \o Repeat(99, DescriptionMax)
    /\ ret.articles[1].description
           = << 97, 98, 32 >> \o Repeat(99, DescriptionMax - 4) \o << 8230 >>

---------------------------------------------------------------------------
(* Properties of the pipeline                                              *)

\* The content string of a response body that is an envelope.
ResponseContent(response) == ContentOf(ParseJson(response.body).val).v

IsAlternativesArticle(article) == ends_with(article.title, AlternativesTitle)

\* C8: every successful translation result has no alternate texts, and no
\* answer of a handler holds an "alternatives" article.
C8_NoAlternates ==
    \A e \in Events :
        /\ handlers[e].outcome.kind = "Ok"
               => handlers[e].outcome.alternate_texts = << >>
        /\ \A i \in 1..Len(handlers[e].answers) :
               \A k \in 1..Len(handlers[e].answers[i]) :
                   ~IsAlternativesArticle(handlers[e].answers[i][k])

\* C8 witness: the provider's payload carried four alternatives and a
\* romanization; the handler has answered with the primary and the
\* romanized article only.
C8_Witness ==
    \E e \in Events :
        /\ handlers[e].pc = "done"
        /\ handlers[e].outcome.kind = "Ok"
        /\ Len(parse_json_content(ResponseContent(handlers[e].response)).alternatives.v) = 4
        /\ Len(handlers[e].answers) = 1
        /\ Len(handlers[e].answers[1]) = 2
        /\ ends_with(handlers[e].answers[1][1].title, PrimaryTitle)
        /\ ends_with(handlers[e].answers[1][2].title, RomanizedTitle)

\* The answer the handler owes for what it has interpreted and received:
\* the help entry, one error entry, or the translation candidates.
ExpectedAnswer(h) ==
    CASE h.parsed.kind = "None" ->
             << build_help_article(config.default_source_lang,
                                   config.default_target_lang) >>
      [] h.outcome.kind = "Err" -> << build_error_article(ErrorMessage(h.outcome)) >>
      [] OTHER -> build_translation_articles(h.parsed, h.outcome)

\* C11: for each inbound inline query, whatever the other handlers do, the
\* handler issues at most one provider request, and only for a recognized
\* query; a failed translate call is not retried and is answered at once
\* with one error entry; and a handler that has ended has answered its
\* query exactly once, with the help entry, one error entry or the
\* translation candidates, as its own query and its own provider response
\* determine.
C11_OneRequestOneAnswer ==
    \A e \in Events :
        /\ Len(handlers[e].requests) <= 1
        /\ Len(handlers[e].requests) = 1 => handlers[e].parsed.kind = "Some"
        /\ handlers[e].parsed.kind = "None" => Len(handlers[e].requests) = 0
        /\ Len(handlers[e].answers) <= 1
        /\ handlers[e].outcome.kind = "Err"
               => /\ Len(handlers[e].requests) = 1
                  /\ Len(handlers[e].answers) = 1
        /\ handlers[e].pc \in {"done", "panicked"} => Len(handlers[e].answers) = 1
        /\ Len(handlers[e].answers) = 1
               => handlers[e].answers[1] = ExpectedAnswer(handlers[e])

===========================================================================
